---- MODULE Spec2Model ----
(***************************************************************************)
(* Model of the plugin runtime of go-idpc-plugin (src/plugin.go): the      *)
(* state file, the rate engine, the output formatter and the run harness.  *)
(*                                                                         *)
(* Conventions of the model                                                *)
(*   - Time is counted in ticks; Second ticks make one second, so that a   *)
(*     time.Time keeps a sub-second part and Unix() truncates it.          *)
(*   - A name ("memcached.cmd", ".last_diff.get") is the sequence of its   *)
(*     dot-separated segments; the empty string is <<>>.                   *)
(*   - An unsigned integer is a little-endian sequence of limbs in base    *)
(*     2^16 without leading zero limbs (TLC's integers are 32 bits wide,   *)
(*     the program's are 32 and 64 bits wide and wrap).                    *)
(*   - A float64 is the non-negative fraction n/d in lowest terms, n a     *)
(*     limb sequence and d a positive integer below 2^15; rounding of the  *)
(*     binary format is not modelled, and a quotient that is infinite,     *)
(*     NaN or negative is the one value Beyond.                            *)
(*   - A Go value of dynamic type interface{} is a record [s, n, d, t]:    *)
(*     t the dynamic type, n/d the number, s the text of a string that     *)
(*     does not parse as a number.                                         *)
(*   - A record constructor lists its fields in the order in which the     *)
(*     names first appear in the module, the order TLC keeps them in.      *)
(***************************************************************************)
EXTENDS Integers, Sequences, FiniteSets, TLC

(***************************************************************************)
(* Unsigned integers of arbitrary width                                    *)
(***************************************************************************)
Base == 2^16

RECURSIVE BigNorm(_)
BigNorm(a) ==
  IF a = <<>> THEN <<>>
  ELSE IF a[Len(a)] = 0 THEN BigNorm(SubSeq(a, 1, Len(a) - 1))
  ELSE a

RECURSIVE BigOf(_)
BigOf(k) == IF k = 0 THEN <<>> ELSE <<k % Base>> \o BigOf(k \div Base)

Limb(a, i) == IF i <= Len(a) THEN a[i] ELSE 0

MaxLen(a, b) == IF Len(a) >= Len(b) THEN Len(a) ELSE Len(b)

RECURSIVE BigAddFrom(_, _, _, _)
BigAddFrom(a, b, i, carry) ==
  IF i > MaxLen(a, b)
  THEN (IF carry = 0 THEN <<>> ELSE <<carry>>)
  ELSE LET s == Limb(a, i) + Limb(b, i) + carry
       IN  <<s % Base>> \o BigAddFrom(a, b, i + 1, s \div Base)

BigAdd(a, b) == BigNorm(BigAddFrom(a, b, 1, 0))

\* a - b on `limbs` limbs, the final borrow dropped: subtraction modulo
\* 2^(16*limbs), which is what an unsigned Go subtraction computes.
RECURSIVE BigSubFrom(_, _, _, _, _)
BigSubFrom(a, b, i, borrow, limbs) ==
  IF i > limbs THEN <<>>
  ELSE LET s == Limb(a, i) - Limb(b, i) - borrow
       IN  IF s < 0
           THEN <<s + Base>> \o BigSubFrom(a, b, i + 1, 1, limbs)
           ELSE <<s>> \o BigSubFrom(a, b, i + 1, 0, limbs)

BigSubWrap(a, b, limbs) == BigNorm(BigSubFrom(a, b, 1, 0, limbs))

\* a * m for 0 <= m < 2^15
RECURSIVE BigMulFrom(_, _, _, _)
BigMulFrom(a, m, i, carry) ==
  IF i > Len(a)
  THEN (IF carry = 0 THEN <<>> ELSE <<carry>>)
  ELSE LET s == a[i] * m + carry
       IN  <<s % Base>> \o BigMulFrom(a, m, i + 1, s \div Base)

BigMulSmall(a, m) == BigNorm(BigMulFrom(a, m, 1, 0))

\* a modulo 2^(16*limbs)
BigWrap(a, limbs) ==
  BigNorm(IF Len(a) <= limbs THEN a ELSE SubSeq(a, 1, limbs))

\* <<quotient limbs (most significant first), remainder>> of a / m, 0 < m < 2^15
RECURSIVE BigDivFrom(_, _, _, _)
BigDivFrom(a, m, i, rem) ==
  IF i = 0 THEN <<<<>>, rem>>
  ELSE LET cur  == rem * Base + a[i]
           rest == BigDivFrom(a, m, i - 1, cur % m)
       IN  <<rest[1] \o <<cur \div m>>, rest[2]>>

BigDivSmall(a, m) == BigNorm(BigDivFrom(a, m, Len(a), 0)[1])
BigModSmall(a, m) == BigDivFrom(a, m, Len(a), 0)[2]

RECURSIVE BigLessFrom(_, _, _)
BigLessFrom(a, b, i) ==
  IF i = 0 THEN FALSE
  ELSE IF a[i] # b[i] THEN a[i] < b[i]
  ELSE BigLessFrom(a, b, i - 1)

BigLess(a, b) ==
  IF Len(a) # Len(b) THEN Len(a) < Len(b) ELSE BigLessFrom(a, b, Len(a))

BigLeq(a, b) == a = b \/ BigLess(a, b)

\* the value of a limb sequence below 2^31
BigToInt(a) == Limb(a, 1) + Base * Limb(a, 2)

RECURSIVE Gcd(_, _)
Gcd(a, b) == IF b = 0 THEN a ELSE Gcd(b, a % b)

(***************************************************************************)
(* float64 as a fraction, and the Go values a plugin hands to the runtime  *)
(***************************************************************************)
\* n/d in lowest terms
Frac(n, d) ==
  LET g == Gcd(d, BigModSmall(n, d))
  IN  [n |-> BigDivSmall(n, g), d |-> d \div g]

FracLess(x, y) == BigLess(BigMulSmall(x.n, y.d), BigMulSmall(y.n, x.d))
FracLeq(x, y)  == ~FracLess(y, x)
\* x * (sn/sd) and x / k for small non-negative integers sn, sd, k
FracScale(x, sn, sd) == Frac(BigMulSmall(x.n, sn), x.d * sd)
FracDiv(x, k)  == Frac(x.n, x.d * k)
FracFloor(x)   == BigDivSmall(x.n, x.d)

Nil       == [s |-> "",     n |-> <<>>, d |-> 1, t |-> "nil"]
U32(k)    == [s |-> "",  n |-> BigOf(k), d |-> 1, t |-> "uint32"]
U64(k)    == [s |-> "",  n |-> BigOf(k), d |-> 1, t |-> "uint64"]
I64(k)    == [s |-> "",   n |-> BigOf(k), d |-> 1, t |-> "int64"]
GoInt(k)  == [s |-> "",     n |-> BigOf(k), d |-> 1, t |-> "int"]
F64(k, d) == [s |-> "", n |-> Frac(BigOf(k), d).n, d |-> Frac(BigOf(k), d).d, t |-> "float64"]
\* a string holding the decimal text of k, and a string holding other text
NumStr(k) == [s |-> "#",  n |-> BigOf(k), d |-> 1, t |-> "string"]
Str(text) == [s |-> text,  n |-> <<>>, d |-> 1, t |-> "string"]

Typed(t, x) == [s |-> "", n |-> x.n, d |-> x.d, t |-> t]
FracOf(v)   == [n |-> v.n, d |-> v.d]
Zero        == [n |-> <<>>, d |-> 1]

\* the widths of uint32 and uint64, in limbs
Limbs32 == 2
Limbs64 == 4
\* 2^(16*limbs) - 1
AllOnes(limbs) == [i \in 1..limbs |-> Base - 1]

(***************************************************************************)
(* strconv.ParseUint / strconv.ParseFloat as formatValues uses them: the   *)
(* result is [v |-> value, err |-> failed]; ParseUint returns a uint64,    *)
(* the largest value of the bit size on a range error and 0 on a syntax    *)
(* error; ParseFloat returns 0 on a syntax error.                          *)
(***************************************************************************)
ParseUint(v, limbs) ==
  IF v.s = "#" /\ v.d = 1
  THEN IF Len(v.n) <= limbs
       THEN [v |-> Typed("uint64", FracOf(v)), err |-> FALSE]
       ELSE [v |-> Typed("uint64", [n |-> AllOnes(limbs), d |-> 1]), err |-> TRUE]
  ELSE [v |-> Typed("uint64", Zero), err |-> TRUE]

ParseFloat(v) ==
  IF v.s = "#"
  THEN [v |-> Typed("float64", FracOf(v)), err |-> FALSE]
  ELSE [v |-> Typed("float64", Zero), err |-> TRUE]

\* toUint32 / toUint64: the integer part of a float64 (in range for every
\* value of the model), the low limbs of the other integer kind, the parsed
\* text of a string, 0 for every other dynamic type.
toUint(value, limbs) ==
  CASE value.t \in {"uint32", "uint64"} -> BigWrap(value.n, limbs)
    [] value.t = "float64" -> BigWrap(FracFloor(FracOf(value)), limbs)
    [] value.t = "string" ->
         (IF ParseUint(value, limbs).err THEN <<>> ELSE ParseUint(value, limbs).v.n)
    [] OTHER -> <<>>

toUint32(value) == toUint(value, Limbs32)
toUint64(value) == toUint(value, Limbs64)

toFloat64(value) ==
  CASE value.t \in {"uint32", "uint64", "float64"} -> FracOf(value)
    [] value.t = "string" -> FracOf(ParseFloat(value).v)
    [] OTHER -> Zero

(***************************************************************************)
(* Time.  A time.Time is [zero |-> TRUE] for the zero value, else the tick *)
(* count since the epoch.                                                  *)
(***************************************************************************)
Second == 2

ZeroTime   == [zero |-> TRUE,  tick |-> 0]
At(tick)   == [zero |-> FALSE, tick |-> tick]
\* time.Unix(sec, 0)
TimeUnix(sec) == At(sec * Second)
\* t.Unix() of a time that is not the zero value
Unix(t) == t.tick \div Second

\* time.Unix(int64(v), 0) of a float64 v that no int64 holds.  The
\* conversion is implementation-dependent: the least int64 on amd64, the
\* largest on arm64.  On both builds the time lies out of the reach of a
\* Duration behind the clock (the largest int64 wraps in time.Unix), so
\* now.Sub saturates at the largest Duration, and now.Unix() minus its
\* Unix() is negative: it wraps past the largest int64 on amd64 and is
\* now.Unix() minus the largest int64 on arm64.  The seconds of Remote
\* stand for -2^63 at the scale of the model's integers.
Remote == [zero |-> FALSE, tick |-> -(2^30)]

TooLong == 600

\* now.Unix() - lastTime.Unix() in int64.  The zero time.Time lies in year
\* 1: its distance from every clock value exceeds TooLong, and TooLong + 1
\* stands for it.  Subtracting the least int64 wraps into adding it.
diffTime(now, lastTime) ==
  IF lastTime.zero THEN TooLong + 1
  ELSE IF lastTime = Remote THEN Unix(now) + Unix(Remote)
  ELSE Unix(now) - Unix(lastTime)

(***************************************************************************)
(* Rate engine.  A result is [v |-> float64 fraction, err |-> "" or the    *)
(* error text].                                                           *)
(***************************************************************************)
\* a quotient by a duration of 0 seconds or less: +Inf, -Inf, NaN or a
\* negative number, none of them a fraction of the model
Beyond == [n |-> <<>>, d |-> 0]

ErrTooLong == "too long duration"
ErrReset   == "counter seems to be reset"
PerMinute  == 60
Tolerance  == 10

\* a rate per second: the difference over the duration, not scaled to the
\* minute
calcDiffPerSecond(value, now, lastValue, lastTime) ==
  IF diffTime(now, lastTime) > TooLong
  THEN [v |-> Zero, err |-> ErrTooLong]
  ELSE IF FracLeq(lastValue, value)
       THEN LET a == BigMulSmall(value.n, lastValue.d)
                b == BigMulSmall(lastValue.n, value.d)
            IN  [v |-> Frac(BigSubWrap(a, b, Len(a)),
                            value.d * lastValue.d * diffTime(now, lastTime)),
                 err |-> ""]
       ELSE [v |-> Zero, err |-> ErrReset]


\* a float rate that lets a decrease pass as no change
calcDiffTolerant(value, now, lastValue, lastTime) ==
  IF diffTime(now, lastTime) > TooLong
  THEN [v |-> Zero, err |-> ErrTooLong]
  ELSE IF FracLeq(lastValue, value)
       THEN LET a == BigMulSmall(value.n, lastValue.d)
                b == BigMulSmall(lastValue.n, value.d)
            IN  [v |-> Frac(BigMulSmall(BigSubWrap(a, b, Len(a)), PerMinute),
                            value.d * lastValue.d * diffTime(now, lastTime)),
                 err |-> ""]
       ELSE [v |-> Zero, err |-> ""]


calcDiff(value, now, lastValue, lastTime) ==
  IF diffTime(now, lastTime) > TooLong
  THEN [v |-> Zero, err |-> ErrTooLong]
  ELSE IF FracLeq(lastValue, value)
       THEN IF diffTime(now, lastTime) < 1 THEN [v |-> Beyond, err |-> ""]
            ELSE
            LET a == BigMulSmall(value.n, lastValue.d)
                b == BigMulSmall(lastValue.n, value.d)
            IN  [v |-> Frac(BigMulSmall(BigSubWrap(a, b, Len(a)), PerMinute),
                            value.d * lastValue.d * diffTime(now, lastTime)),
                 err |-> ""]
       ELSE [v |-> Zero, err |-> ErrReset]

\* an unsigned rate that looks for the reset before the duration
calcDiffUintResetFirst(value, now, lastValue, lastTime, lastDiff, limbs) ==
  LET diff == Frac(BigWrap(BigMulSmall(BigSubWrap(value, lastValue, limbs), PerMinute), limbs),
                   IF diffTime(now, lastTime) > 0 THEN diffTime(now, lastTime) ELSE 1)
  IN  IF ~(BigLeq(lastValue, value) \/ FracLess(diff, FracScale(lastDiff, Tolerance, 1)))
      THEN [v |-> Zero, err |-> ErrReset]
      ELSE IF diffTime(now, lastTime) > TooLong
           THEN [v |-> Zero, err |-> ErrTooLong]
           ELSE [v |-> diff, err |-> ""]

\* an unsigned rate without the tolerance for a decrease
calcDiffUintStrict(value, now, lastValue, lastTime, lastDiff, limbs) ==
  IF diffTime(now, lastTime) > TooLong
  THEN [v |-> Zero, err |-> ErrTooLong]
  ELSE LET diff == Frac(BigWrap(BigMulSmall(BigSubWrap(value, lastValue, limbs), PerMinute), limbs),
                        diffTime(now, lastTime))
       IN  IF BigLeq(lastValue, value)
           THEN [v |-> diff, err |-> ""]
           ELSE [v |-> Zero, err |-> ErrReset]

\* calcDiffUint32 and calcDiffUint64 differ in the width alone: the
\* subtraction and the multiplication by 60 wrap at `limbs` limbs.
calcDiffUint(value, now, lastValue, lastTime, lastDiff, limbs) ==
  IF diffTime(now, lastTime) > TooLong
  THEN [v |-> Zero, err |-> ErrTooLong]
  ELSE IF diffTime(now, lastTime) < 1
  THEN \* +Inf and NaN are below nothing, a negative quotient is below
       \* every lastDiff*10 but -0 < 0
       IF \/ BigLeq(lastValue, value)
          \/ /\ diffTime(now, lastTime) < 0
             /\ \/ BigWrap(BigMulSmall(BigSubWrap(value, lastValue, limbs), PerMinute), limbs)
                     # <<>>
                \/ lastDiff # Zero
       THEN [v |-> Beyond, err |-> ""]
       ELSE [v |-> Zero, err |-> ErrReset]
  ELSE LET diff == Frac(BigWrap(BigMulSmall(BigSubWrap(value, lastValue, limbs), PerMinute), limbs),
                        diffTime(now, lastTime))
       IN  IF BigLeq(lastValue, value) \/ FracLess(diff, FracScale(lastDiff, Tolerance, 1))
           THEN [v |-> diff, err |-> ""]
           ELSE [v |-> Zero, err |-> ErrReset]

calcDiffUint32(value, now, lastValue, lastTime, lastDiff) ==
  calcDiffUint(value, now, lastValue, lastTime, lastDiff, Limbs32)

calcDiffUint64(value, now, lastValue, lastTime, lastDiff) ==
  calcDiffUint(value, now, lastValue, lastTime, lastDiff, Limbs64)

(***************************************************************************)
(* Go maps (map[string]interface{}): nil or a function from names to       *)
(* values.  Reading a nil map finds nothing.                               *)
(***************************************************************************)
NoEntries    == [k \in {} |-> Nil]
NilMap       == [m |-> NoEntries,  nil |-> TRUE]
MapOf(f)     == [m |-> f, nil |-> FALSE]
Has(map, k)  == k \in DOMAIN map.m
Get(map, k)  == IF Has(map, k) THEN map.m[k] ELSE Nil
Put(map, k, v) ==
  MapOf([x \in DOMAIN map.m \cup {k} |-> IF x = k THEN v ELSE map.m[x]])

\* reflect.DeepEqual of two maps of scalar values
DeepEqual(a, b) == a = b

PluginValues(values, timestamp) == [Values |-> values, Timestamp |-> timestamp]

(***************************************************************************)
(* Output formatter                                                        *)
(***************************************************************************)
Million == 1000000
Thousand == 1000

\* fmt's %d of an unsigned integer and %f of a float64: the integer part and
\* six decimals, rounded to nearest, ties to even.
FormatD(n) == [fmt |-> "d", ip |-> n, frac |-> 0]
FormatF(x) ==
  LET ip    == BigDivSmall(x.n, x.d)
      r     == BigMulSmall(BigMulSmall(BigOf(BigModSmall(x.n, x.d)), Thousand), Thousand)
      q     == BigDivSmall(r, x.d)
      qi    == BigToInt(q)
      rest  == BigModSmall(r, x.d)
      up    == 2 * rest > x.d \/ (2 * rest = x.d /\ qi % 2 = 1)
      micro == IF up THEN qi + 1 ELSE qi
  IN  IF micro = Million
      THEN [fmt |-> "f", ip |-> BigAdd(ip, BigOf(1)), frac |-> 0]
      ELSE [fmt |-> "f", ip |-> ip, frac |-> micro]

\* the lines printValue writes: one, or none for a value that is neither
\* uint32, uint64 nor float64
printValue(key, value, now) ==
  CASE value.t \in {"uint32", "uint64"} ->
         <<[text |-> FormatD(value.n), key |-> key, ts |-> Unix(now)]>>
    [] value.t = "float64" /\ FracOf(value) = Beyond ->
         <<[text |-> [fmt |-> "f", ip |-> <<>>, frac |-> -1], key |-> key, ts |-> Unix(now)]>>
    [] value.t = "float64" ->
         <<[text |-> FormatF(FracOf(value)), key |-> key, ts |-> Unix(now)]>>
    [] OTHER -> <<>>

metricTypeUint32 == "uint32"
metricTypeUint64 == "uint64"
LastDiffKey(name) == <<"", "last_diff">> \o name

\* the value after the string parsing of formatValues (lines 339-348)
ParsedValue(metric, value) ==
  IF value.t # "string" THEN value
  ELSE CASE metric.Type = metricTypeUint32 -> ParseUint(value, Limbs32).v
         [] metric.Type = metricTypeUint64 -> ParseUint(value, Limbs64).v
         [] OTHER -> ParseFloat(value).v

\* the rate of a diff metric (lines 358-370): [v, err]
DiffValue(metric, name, value, metricValues, lastMetricValues) ==
  LET last     == Get(lastMetricValues.Values, name)
      lastDiff == IF Get(lastMetricValues.Values, LastDiffKey(name)) # Nil
                  THEN toFloat64(Get(lastMetricValues.Values, LastDiffKey(name)))
                  ELSE Zero
  IN  CASE metric.Type = metricTypeUint32 ->
             calcDiffUint32(toUint32(value), metricValues.Timestamp, toUint32(last),
                            lastMetricValues.Timestamp, lastDiff)
        [] metric.Type = metricTypeUint64 ->
             calcDiffUint64(toUint64(value), metricValues.Timestamp, toUint64(last),
                            lastMetricValues.Timestamp, lastDiff)
        [] OTHER ->
             calcDiff(toFloat64(value), metricValues.Timestamp, toFloat64(last),
                      lastMetricValues.Timestamp)

\* the scaling of formatValues (lines 382-391); Scale is the fraction n/d
\* and uint32(Scale), uint64(Scale) its integer part
ScaledValue(metric, value) ==
  IF metric.Scale.n = 0 THEN value
  ELSE CASE metric.Type = metricTypeUint32 ->
              Typed("uint32", [n |-> BigWrap(BigMulSmall(toUint32(value),
                                                         metric.Scale.n \div metric.Scale.d),
                                             Limbs32),
                               d |-> 1])
         [] metric.Type = metricTypeUint64 ->
              Typed("uint64", [n |-> BigWrap(BigMulSmall(toUint64(value),
                                                         metric.Scale.n \div metric.Scale.d),
                                             Limbs64),
                               d |-> 1])
         [] OTHER ->
              Typed("float64", FracScale(toFloat64(value), metric.Scale.n, metric.Scale.d))

\* strings.Join(metricNames, "."): the plugin key, the prefix when it is
\* not empty, the metric's name
MetricKey(key, prefix, metric) == <<key>> \o prefix \o metric.Name

\* a formatValues that takes the raw value of a metric whose rate failed
\* out of the observation, so that it is not persisted
formatValuesDroppingFailed(key, prefix, metric, metricValues, lastMetricValues) ==
  LET name  == IF metric.AbsoluteName /\ Len(prefix) > 0
               THEN prefix \o metric.Name ELSE metric.Name
      raw   == Get(metricValues.Values, name)
      value == ParsedValue(metric, raw)
      known == Has(lastMetricValues.Values, name)
      r     == IF metric.Diff /\ known
               THEN DiffValue(metric, name, value, metricValues, lastMetricValues)
               ELSE [v |-> Zero, err |-> ""]
      skip  == \/ ~Has(metricValues.Values, name) \/ raw = Nil
               \/ metric.Diff /\ (~known \/ r.err # "")
      rate  == Typed("float64", r.v)
      kept  == DOMAIN metricValues.Values.m \ {name}
  IN  IF skip
      THEN [Values |-> IF r.err # ""
                       THEN MapOf([k \in kept |-> metricValues.Values.m[k]])
                       ELSE metricValues.Values,
            out |-> <<>>]
      ELSE [Values |-> IF metric.Diff
                       THEN Put(metricValues.Values, LastDiffKey(name), rate)
                       ELSE metricValues.Values,
            out |-> printValue(MetricKey(key, prefix, metric),
                               ScaledValue(metric, IF metric.Diff THEN rate ELSE value),
                               metricValues.Timestamp)]

\* formatValues: [Values |-> the current observation's map afterwards,
\*               out |-> the lines written to stdout]
formatValues(key, prefix, metric, metricValues, lastMetricValues) ==
  LET name  == IF metric.AbsoluteName /\ Len(prefix) > 0
               THEN prefix \o metric.Name ELSE metric.Name
      raw   == Get(metricValues.Values, name)
      value == ParsedValue(metric, raw)
      known == Has(lastMetricValues.Values, name)
      r     == IF metric.Diff /\ known
               THEN DiffValue(metric, name, value, metricValues, lastMetricValues)
               ELSE [v |-> Zero, err |-> ""]
      \* the returns of lines 335, 373 and 378
      skip  == \/ ~Has(metricValues.Values, name) \/ raw = Nil
               \/ metric.Diff /\ (~known \/ r.err # "")
      rate  == Typed("float64", r.v)
  IN  IF skip
      THEN [Values |-> metricValues.Values, out |-> <<>>]
      ELSE [Values |-> IF metric.Diff
                       THEN Put(metricValues.Values, LastDiffKey(name), rate)
                       ELSE metricValues.Values,
            out |-> printValue(MetricKey(key, prefix, metric),
                               ScaledValue(metric, IF metric.Diff THEN rate ELSE value),
                               metricValues.Timestamp)]

(***************************************************************************)
(* Wildcard expansion.  A segment "*" or "#" of the pattern stands for a   *)
(* non-empty run of [-a-zA-Z0-9_]; the pattern is anchored at the start of *)
(* the key only (\A, no \z), so a key matches when its leading segments    *)
(* match.  Every segment of the model is such a run, or empty.             *)
(***************************************************************************)
IsToken(seg) == seg \in {"*", "#"}
ContainsToken(name) == \E i \in 1..Len(name) : IsToken(name[i])

MatchString(pattern, k) ==
  /\ Len(k) >= Len(pattern)
  /\ \A i \in 1..Len(pattern) :
       IF IsToken(pattern[i]) THEN k[i] # "" ELSE k[i] = pattern[i]

RECURSIVE SetToSeq(_)
SetToSeq(S) ==
  IF S = {} THEN <<>>
  ELSE LET x == CHOOSE y \in S : TRUE IN <<x>> \o SetToSeq(S \ {x})

\* the lines written to stdout in one invocation, as a bag: the order of
\* the lines follows Go's map iteration order and is not modelled
NoOutput == [x \in {} |-> 0]
RECURSIVE BagOfSeq(_)
BagOfSeq(q) ==
  IF q = <<>> THEN NoOutput
  ELSE LET b == BagOfSeq(Tail(q))
           x == Head(q)
       IN  [y \in DOMAIN b \cup {x} |->
              IF y = x THEN (IF x \in DOMAIN b THEN b[x] + 1 ELSE 1) ELSE b[y]]
BagSum(a, b) ==
  [y \in DOMAIN a \cup DOMAIN b |->
     (IF y \in DOMAIN a THEN a[y] ELSE 0) + (IF y \in DOMAIN b THEN b[y] ELSE 0)]
Count(bag, x) == IF x \in DOMAIN bag THEN bag[x] ELSE 0

\* the regular expression of formatValuesWithWildcard, segment by segment:
\* prefix + "." + metric.Name
Pattern(prefix, metric) ==
  (IF prefix = <<>> THEN <<"">> ELSE prefix) \o metric.Name

\* formatValuesWithWildcard: the calls of formatValues it makes, one for
\* every observed key that matches, as <<prefix, metric>> pairs.  The range
\* loop runs over the keys of the current observation; an entry created
\* while it runs (".last_diff." + name) matches no pattern of the model,
\* whose graph keys are not empty.
RECURSIVE formatValuesWithWildcardFrom(_, _, _)
formatValuesWithWildcardFrom(keys, prefix, metric) ==
  IF keys = <<>> THEN <<>>
  ELSE (IF MatchString(Pattern(prefix, metric), Head(keys))
        THEN <<[metric |-> [metric EXCEPT !.Name = Head(keys)], prefix |-> <<>>]>>
        ELSE <<>>)
       \o formatValuesWithWildcardFrom(Tail(keys), prefix, metric)

formatValuesWithWildcard(prefix, metric, metricValues) ==
  formatValuesWithWildcardFrom(SetToSeq(DOMAIN metricValues.Values.m), prefix, metric)

(***************************************************************************)
(* State store.  The state file is absent, holds text that does not decode *)
(* as JSON, or holds a JSON object: a function from names to JSON values   *)
(* [j |-> "number" | "string" | "null", n, d, s].                          *)
(***************************************************************************)
LastTimeKey == <<"_lastTime">>

Absent      == [kind |-> "absent",  obj |-> NoEntries]
Corrupt     == [kind |-> "corrupt", obj |-> NoEntries]
JsonFile(o) == [kind |-> "json",    obj |-> o]

\* encoding/json of a scalar: every numeric type is written as a number
Encode(v) ==
  CASE v.t = "nil"    -> [s |-> "",   n |-> <<>>, d |-> 1,   j |-> "null"]
    [] v.t = "string" -> [s |-> v.s, n |-> v.n,  d |-> v.d, j |-> "string"]
    [] OTHER          -> [s |-> "", n |-> v.n,  d |-> v.d, j |-> "number"]

\* encoding/json into interface{}: every number is read as a float64
Decode(x) ==
  CASE x.j = "null"   -> Nil
    [] x.j = "string" -> [s |-> x.s,  n |-> x.n, d |-> x.d, t |-> "string"]
    [] OTHER          -> [s |-> "", n |-> x.n, d |-> x.d, t |-> "float64"]

EncodeMap(map) == [k \in DOMAIN map.m |-> Encode(map.m[k])]
DecodeMap(obj) == MapOf([k \in DOMAIN obj |-> Decode(obj[k])])

ErrDecode       == "decode"
errStateUpdated == "state was recently updated"

\* 2^63, the least whole number above every int64
Int64Limit == <<0, 0, 0, 32768>>

\* time.Unix(int64(v), 0) of the float64 fraction v
TimeOfSeconds(v) ==
  IF BigLess(FracFloor(v), Int64Limit)
  THEN TimeUnix(BigToInt(FracFloor(v))) ELSE Remote

\* LoadLastValues: [values, err]
LoadLastValues(f) ==
  CASE f.kind = "absent"  -> [err |-> "", values |-> PluginValues(NilMap, ZeroTime)]
    [] f.kind = "corrupt" -> [err |-> ErrDecode, values |-> PluginValues(NilMap, ZeroTime)]
    [] OTHER ->
         LET vals == DecodeMap(f.obj)
             v    == Get(vals, LastTimeKey)
         IN  [err |-> "",
              values |-> PluginValues(vals,
                           IF v.t \in {"float64", "int64"}
                           THEN TimeOfSeconds(FracOf(v))
                           ELSE ZeroTime)]

\* a guard on whole seconds that also rejects the second after the write
UpdatedThisOrLastSecond(now, t) == ~t.zero /\ Unix(now) - Unix(t) <= 1

\* a guard that also rejects a load exactly one second after the write
UpdatedWithinSecond(now, t) == ~t.zero /\ now.tick - t.tick <= Second

\* now.Sub(t) < time.Second; the distance to the zero time saturates at the
\* largest Duration
RecentlyUpdated(now, t) == ~t.zero /\ now.tick - t.tick < Second

loadLastValuesSafe(f, now) ==
  LET r == LoadLastValues(f)
  IN  IF r.err # "" THEN r
      ELSE IF RecentlyUpdated(now, r.values.Timestamp)
           THEN [err |-> errStateUpdated, values |-> r.values]
           ELSE r

\* a save that leaves the time of the write out of the file
SaveValuesUnstamped(values) == JsonFile(EncodeMap(values.Values))

\* SaveValues: the file afterwards.  os.Create and the encoder do not fail
\* in the model.
SaveValues(values) ==
  JsonFile(EncodeMap(Put(values.Values, LastTimeKey, I64(Unix(values.Timestamp)))))

(***************************************************************************)
(* The plugin under the runtime: its descriptor, the capabilities it       *)
(* implements and its graph definitions.                                   *)
(***************************************************************************)
TypeChecker  == "checker"
TypeMetrics  == "metrics"
TypeMetadata == "metadata"

PluginKey == "memcached"

\* [Type |-> the declared type, caps |-> the capability interfaces the
\*  plugin value satisfies]
Plugins ==
  { [Type |-> TypeMetrics,  caps |-> {TypeMetrics}],
    [Type |-> TypeChecker,  caps |-> {TypeChecker}],
    [Type |-> TypeMetadata, caps |-> {TypeMetadata}],
    [Type |-> TypeMetadata, caps |-> {TypeMetadata, TypeMetrics}],
    [Type |-> TypeChecker,  caps |-> {}] }

NoScale == [n |-> 0, d |-> 1]
Metric(name, label, diff, type) ==
  [Type |-> type, Scale |-> NoScale, Name |-> name, AbsoluteName |-> FALSE,
   Diff |-> diff, Label |-> label, Stacked |-> FALSE]

\* GraphDefinition() of the plugin, after the memcached example: a gauge, a
\* float counter and a uint32 counter in two graphs
GraphDefinition ==
  (<<"conn">> :> [Label |-> "Connections", Unit |-> "integer",
                  Metrics |-> <<Metric(<<"curr">>, "Connections", FALSE, "")>>])
  @@
  (<<"cmd">>  :> [Label |-> "", Unit |-> "integer",
                  Metrics |-> <<Metric(<<"get">>, "Get", TRUE, ""),
                                Metric(<<"set">>, "", TRUE, metricTypeUint32)>>])

(***************************************************************************)
(* Runtime harness.  One record per invocation of the plugin process.      *)
(***************************************************************************)
NoCalls == [GraphDefinition |-> 0, Metrics |-> 0, Checker |-> 0, Metadata |-> 0]
NoRet   == [err |-> FALSE, map |-> NilMap, message |-> "", status |-> ""]
NoLoad  == [err |-> "", values |-> PluginValues(NilMap, ZeroTime)]

\* an invocation that has done nothing yet.  mode: the branch Run() took;
\* env: what os.Getenv returned; now: the time of the invocation in ticks;
\* out: stdout; exit: the exit status; opened: the state file was opened for
\* reading; loaded: what the guarded load returned; stale: the cycle stopped
\* on errStateUpdated; writes: the times the state file was written; calls:
\* the times each capability was called; ret: what the capability returned
Started(mode, env, now) ==
  [now |-> now, out |-> NoOutput, mode |-> mode, env |-> env, exit |-> 0,
   opened |-> FALSE, loaded |-> NoLoad, stale |-> FALSE, writes |-> 0,
   calls |-> NoCalls, ret |-> NoRet]

NoRun == Started("none", "", 0)
NoCall == [fn |-> "none"]

VARIABLES
  plugin,   \* the plugin of this behaviour
  file,     \* the state file
  clock,    \* the wall clock, in ticks
  cur,      \* the latest invocation
  prev,     \* the invocation before it
  runs,     \* the number of invocations so far
  procs,    \* the invocations under way at the same time, by process
  call      \* one function called on its own: its arguments and its result

vars == <<plugin, file, clock, cur, prev, runs, procs, call>>

\* title(k): the label derived from a key
Label(given, k) == [given |-> given, titleOf |-> IF given = "" THEN k ELSE <<>>]

RECURSIVE MetricsJson(_)
MetricsJson(metrics) ==
  IF metrics = <<>> THEN <<>>
  ELSE <<[name |-> Head(metrics).Name,
          label |-> Label(Head(metrics).Label, Head(metrics).Name),
          stacked |-> Head(metrics).Stacked]>> \o MetricsJson(Tail(metrics))

\* the graph definitions OutputMeta prints
GraphDef ==
  [k \in {<<PluginKey>> \o g : g \in DOMAIN GraphDefinition} |->
     LET graph == GraphDefinition[Tail(k)]
     IN  [label |-> Label(graph.Label, k), metrics |-> MetricsJson(graph.Metrics),
          unit |-> graph.Unit]]

\* OutputMeta: the descriptor line and, for a metrics-capable plugin, the
\* graph definitions, in one write
OutputMeta(env, now) ==
  /\ cur' = [Started("meta", env, now) EXCEPT
               !.out = BagOfSeq(<<[version |-> <<PluginKey, plugin.Type>>,
                                   graphs |-> IF TypeMetrics \in plugin.caps
                                              THEN GraphDef ELSE NoEntries]>>),
               !.calls.GraphDefinition = IF TypeMetrics \in plugin.caps THEN 1 ELSE 0]
  /\ file' = file

\* the calls of formatValues the loop of OutputMetricsValues makes for one
\* graph's metrics (lines 512-518), in order
RECURSIVE MetricCalls(_, _, _)
MetricCalls(prefix, metrics, metricValues) ==
  IF metrics = <<>> THEN <<>>
  ELSE (IF ContainsToken(prefix \o Head(metrics).Name)
        THEN formatValuesWithWildcard(prefix, Head(metrics), metricValues)
        ELSE <<[metric |-> Head(metrics), prefix |-> prefix]>>)
       \o MetricCalls(prefix, Tail(metrics), metricValues)

\* and for the graphs `keys` (line 511)
RECURSIVE GraphCalls(_, _)
GraphCalls(keys, metricValues) ==
  IF keys = <<>> THEN <<>>
  ELSE MetricCalls(Head(keys), GraphDefinition[Head(keys)].Metrics, metricValues)
       \o GraphCalls(Tail(keys), metricValues)

\* a loop that gives up at the first metric that prints nothing
RECURSIVE EmitUntilSkipped(_, _, _)
EmitUntilSkipped(calls, metricValues, lastMetricValues) ==
  IF calls = <<>> THEN [Values |-> metricValues.Values, out |-> <<>>]
  ELSE LET one  == formatValues(PluginKey, Head(calls).prefix, Head(calls).metric,
                                metricValues, lastMetricValues)
           rest == EmitUntilSkipped(Tail(calls),
                                    PluginValues(one.Values, metricValues.Timestamp),
                                    lastMetricValues)
       IN  IF one.out = <<>> THEN [Values |-> metricValues.Values, out |-> <<>>]
           ELSE [Values |-> rest.Values, out |-> one.out \o rest.out]

\* the calls made one after the other, each on the map the one before left
RECURSIVE EmitAll(_, _, _)
EmitAll(calls, metricValues, lastMetricValues) ==
  IF calls = <<>> THEN [Values |-> metricValues.Values, out |-> <<>>]
  ELSE LET one  == formatValues(PluginKey, Head(calls).prefix, Head(calls).metric,
                                metricValues, lastMetricValues)
           rest == EmitAll(Tail(calls), PluginValues(one.Values, metricValues.Timestamp),
                           lastMetricValues)
       IN  [Values |-> rest.Values, out |-> one.out \o rest.out]

\* a failure that is logged and survived
FatalContinues(run) == run

\* log.Fatal(): the process exits with status 1 where it stands
Fatal(run) == [run EXCEPT !.exit = 1]

\* every load error ending the cycle, the decode error included
StopsCycleOnAnyError(err) == err # ""

\* the load errors that end a cycle: err == errStateUpdated in the metrics
\* cycle, errors.Is(err, errStateUpdated) in the metadata cycle
StopsCycle(err) == err = errStateUpdated

\* a stale write treated as a failure of the cycle
StoppedFailing(run) == [run EXCEPT !.stale = TRUE, !.exit = 1]

\* the return on a stale write: nothing is printed, nothing is written and
\* the process ends normally
Stopped(run) == [run EXCEPT !.stale = TRUE]

\* OutputMetricsValues, `res` being what Metrics() returns
OutputMetricsValues(env, now, res) ==
  LET start == Started("values", env, now)
      called == [start EXCEPT !.calls.Metrics = 1, !.ret = res]
      metricValues == PluginValues(res.map, At(now))
      loaded == loadLastValuesSafe(file, metricValues.Timestamp)
      opened == [called EXCEPT !.opened = TRUE, !.loaded = loaded]
      emitted == EmitAll(GraphCalls(SetToSeq(DOMAIN GraphDefinition), metricValues),
                         metricValues, loaded.values)
  IN  IF TypeMetrics \notin plugin.caps
      THEN cur' = start /\ file' = file
      ELSE IF res.err
      THEN cur' = Fatal(called) /\ file' = file
      ELSE IF StopsCycle(loaded.err)
      THEN cur' = Stopped(opened) /\ file' = file
      ELSE /\ cur' = [opened EXCEPT !.calls.GraphDefinition = 1,
                                    !.out = BagOfSeq(emitted.out), !.writes = 1]
           /\ file' = SaveValues(PluginValues(emitted.Values, metricValues.Timestamp))

\* OutputCheckerValues, `res` being what Checker() returns: the message and
\* the status are dropped
OutputCheckerValues(env, now, res) ==
  LET start == Started("values", env, now)
  IN  /\ cur' = IF TypeChecker \in plugin.caps
                THEN [start EXCEPT !.calls.Checker = 1, !.ret = res]
                ELSE start
      /\ file' = file

\* OutputMetadataValues, `res` being what Metadata() returns
OutputMetadataValues(env, now, res) ==
  LET start == Started("values", env, now)
      loaded == loadLastValuesSafe(file, At(now))
      opened == [start EXCEPT !.opened = TRUE, !.loaded = loaded]
      called == [opened EXCEPT !.calls.Metadata = 1, !.ret = res]
      printed == [called EXCEPT !.out = BagOfSeq(<<[json |-> EncodeMap(res.map)]>>)]
      preMetadata == loaded.values
      metadata == Put(res.map, LastTimeKey, Get(preMetadata.Values, LastTimeKey))
  IN  IF TypeMetadata \notin plugin.caps
      THEN cur' = start /\ file' = file
      ELSE IF StopsCycle(loaded.err)
      THEN cur' = Stopped(opened) /\ file' = file
      ELSE IF res.err
      THEN cur' = Fatal(called) /\ file' = file
      ELSE IF ~DeepEqual(preMetadata.Values, metadata)
      THEN /\ cur' = [printed EXCEPT !.writes = 1]
           /\ file' = SaveValues(PluginValues(metadata, At(now)))
      ELSE cur' = printed /\ file' = file

(***************************************************************************)
(* What the environment and the plugin's data source can hand to one       *)
(* invocation                                                              *)
(***************************************************************************)
MaxRuns == 3

\* the time between two invocations, in ticks: half a second, a minute, and
\* just beyond the longest rate window
Steps == {1, PerMinute * Second, (TooLong + 1) * Second}

\* os.Getenv(PLUGIN_META_ENV_VAR): empty when unset
Getenv == {"", "1"}

Failure == [err |-> TRUE, map |-> NilMap, message |-> "", status |-> ""]
Returns(values) == [err |-> FALSE, map |-> MapOf(values), message |-> "", status |-> ""]

\* Metrics(): three observations of the gauge "curr" and the counters
\* "get" and "set"; the gauge may be missing and a value may come as text
Stats ==
  { (<<"curr">> :> F64(7, 1)) @@ (<<"get">> :> F64(100, 1)) @@ (<<"set">> :> U32(5)),
    (<<"get">> :> NumStr(160)) @@ (<<"set">> :> U32(3)),
    (<<"curr">> :> F64(7, 1)) @@ (<<"get">> :> F64(220, 1)) @@ (<<"set">> :> U32(125)) }

MetricsResults == {Failure} \cup {Returns(st) : st \in Stats}

\* Metadata(): text, other text, and a Go int
Metas == { <<"os">> :> Str("linux"), <<"os">> :> Str("bsd"), <<"cores">> :> GoInt(4) }

MetadataResults == {Failure} \cup {Returns(m) : m \in Metas}

CheckerResults ==
  { [err |-> FALSE, map |-> NilMap, message |-> "ok", status |-> "OK"],
    [err |-> FALSE, map |-> NilMap, message |-> "disk full", status |-> "CRITICAL"] }

(***************************************************************************)
(* The invocations: the host agent starts the plugin process `step` ticks   *)
(* after the one before; every invocation runs to its end before the next. *)
(***************************************************************************)
Invoke(step) ==
  /\ runs < MaxRuns
  /\ runs' = runs + 1
  /\ clock' = clock + step
  /\ prev' = cur
  /\ plugin' = plugin
  /\ procs' = procs
  /\ call' = call

\* the meta mode taken whatever the environment holds
MetaModeAlways(env) == TRUE

\* Run(): os.Getenv(PLUGIN_META_ENV_VAR) != ""
MetaMode(env) == env # ""

RunMeta ==
  \E step \in Steps, env \in Getenv :
    /\ MetaMode(env)
    /\ Invoke(step)
    /\ OutputMeta(env, clock + step)

\* OutputValues(): the dispatch on the declared type
RunChecker ==
  \E step \in Steps, env \in Getenv, res \in CheckerResults :
    /\ ~MetaMode(env) /\ plugin.Type = TypeChecker
    /\ Invoke(step)
    /\ OutputCheckerValues(env, clock + step, res)

RunMetrics ==
  \E step \in Steps, env \in Getenv, res \in MetricsResults :
    /\ ~MetaMode(env) /\ plugin.Type = TypeMetrics
    /\ Invoke(step)
    /\ OutputMetricsValues(env, clock + step, res)

RunMetadata ==
  \E step \in Steps, env \in Getenv, res \in MetadataResults :
    /\ ~MetaMode(env) /\ plugin.Type = TypeMetadata
    /\ Invoke(step)
    /\ OutputMetadataValues(env, clock + step, res)

Run == RunMeta \/ RunChecker \/ RunMetrics \/ RunMetadata

Init ==
  /\ plugin \in Plugins
  /\ file \in {Absent, Corrupt}
  /\ clock = 10 * Second
  /\ cur = NoRun
  /\ prev = NoRun
  /\ runs = 0
  /\ procs = <<>>
  /\ call = NoCall

Next == Run

Spec == Init /\ [][Next]_vars

(***************************************************************************)
(* The guarded load on its own: loadLastValuesSafe applied once to a state *)
(* file and a clock value drawn from bounded sets.                         *)
(***************************************************************************)
MaxStamp    == 4      \* the largest _lastTime of a state file, in seconds
MaxLoadTick == 12     \* the largest clock value, in ticks

Persisted(values) == JsonFile(EncodeMap(MapOf(values)))

\* absent, corrupt, without _lastTime, with a _lastTime that is no number,
\* and with every _lastTime up to MaxStamp (before and after the clock)
LoadFiles ==
  {Absent, Corrupt,
   Persisted(<<"get">> :> F64(100, 1)),
   Persisted((<<"get">> :> F64(100, 1)) @@ (LastTimeKey :> Str("now")))}
  \cup {Persisted((<<"get">> :> F64(100, 1)) @@ (LastTimeKey :> I64(sec))) :
          sec \in 0..MaxStamp}

GuardedLoad ==
  /\ runs = 0
  /\ runs' = 1
  /\ cur' = [Started("load", "", clock) EXCEPT
               !.opened = TRUE, !.loaded = loadLastValuesSafe(file, At(clock))]
  /\ UNCHANGED <<plugin, file, clock, prev, procs, call>>

LoadInit ==
  /\ plugin = [Type |-> TypeMetrics, caps |-> {TypeMetrics}]
  /\ file \in LoadFiles
  /\ clock \in 0..MaxLoadTick
  /\ cur = NoRun
  /\ prev = NoRun
  /\ runs = 0
  /\ procs = <<>>
  /\ call = NoCall

LoadNext == GuardedLoad

SpecLoad == LoadInit /\ [][LoadNext]_vars

(***************************************************************************)
(* Two metrics invocations of the same plugin under way at once, on the    *)
(* same state file.  Each takes its steps in the order of                  *)
(* OutputMetricsValues: Metrics() and time.Now(), the guarded load, the    *)
(* loop over the graph definitions, os.Create, the encoder's write.  The   *)
(* steps of the two interleave freely and the clock moves between them.    *)
(***************************************************************************)
Procs    == {1, 2}
MaxDrift == 2     \* the ticks the clock may advance while the two are under way

RaceStart == 10 * Second
\* the state file an invocation two seconds before left
OldState ==
  SaveValues(PluginValues(MapOf((<<"curr">> :> F64(7, 1)) @@ (<<"get">> :> F64(40, 1))
                                @@ (<<"set">> :> U32(1))),
                          At(RaceStart - 2 * Second)))

\* os.Create: the file is cut to no bytes, which do not decode
Truncate(f) == Corrupt
\* a write that gives way to a later time already in the file
KeepFresher(f, written) ==
  IF /\ f.kind = "json" /\ LastTimeKey \in DOMAIN f.obj
     /\ BigLess(written.obj[LastTimeKey].n, f.obj[LastTimeKey].n)
  THEN f ELSE written
\* the encoder's write: the bytes replace whatever the file holds
Overwrite(f, written) == written

Waiting == [values |-> NilMap, run |-> NoRun, pc |-> "start", order |-> 0]
Saved == {p \in Procs : procs[p].order > 0}

\* stat, err := mp.Metrics(); Timestamp: time.Now()
Observe(p) ==
  /\ procs[p].pc = "start"
  /\ \E res \in MetricsResults :
       LET called == [Started("values", "", clock) EXCEPT !.calls.Metrics = 1, !.ret = res]
       IN  procs' = [procs EXCEPT ![p].run = IF res.err THEN Fatal(called) ELSE called,
                                  ![p].pc = IF res.err THEN "done" ELSE "load"]
  /\ UNCHANGED <<plugin, file, clock, cur, prev, runs, call>>

\* the guarded load, on the file as it is now
Load(p) ==
  /\ procs[p].pc = "load"
  /\ LET run    == procs[p].run
         loaded == loadLastValuesSafe(file, At(run.now))
         opened == [run EXCEPT !.opened = TRUE, !.loaded = loaded]
     IN  procs' = [procs EXCEPT
                     ![p].run = IF StopsCycle(loaded.err) THEN Stopped(opened) ELSE opened,
                     ![p].pc  = IF StopsCycle(loaded.err) THEN "done" ELSE "emit"]
  /\ UNCHANGED <<plugin, file, clock, cur, prev, runs, call>>

\* the loop over the graph definitions, on what was loaded
Emit(p) ==
  /\ procs[p].pc = "emit"
  /\ LET run == procs[p].run
         metricValues == PluginValues(run.ret.map, At(run.now))
         emitted == EmitAll(GraphCalls(SetToSeq(DOMAIN GraphDefinition), metricValues),
                            metricValues, run.loaded.values)
     IN  procs' = [procs EXCEPT
                     ![p].run = [run EXCEPT !.calls.GraphDefinition = 1,
                                            !.out = BagOfSeq(emitted.out)],
                     ![p].values = emitted.Values,
                     ![p].pc = "create"]
  /\ UNCHANGED <<plugin, file, clock, cur, prev, runs, call>>

\* SaveValues, first half: os.Create
Create(p) ==
  /\ procs[p].pc = "create"
  /\ file' = Truncate(file)
  /\ procs' = [procs EXCEPT ![p].pc = "encode"]
  /\ UNCHANGED <<plugin, clock, cur, prev, runs, call>>

\* SaveValues, second half: _lastTime and encoder.Encode
Write(p) ==
  /\ procs[p].pc = "encode"
  /\ file' = Overwrite(file, SaveValues(PluginValues(procs[p].values, At(procs[p].run.now))))
  /\ procs' = [procs EXCEPT ![p].run.writes = 1,
                            ![p].order = Cardinality(Saved) + 1,
                            ![p].pc = "done"]
  /\ UNCHANGED <<plugin, clock, cur, prev, runs, call>>

Tick ==
  /\ clock < RaceStart + MaxDrift
  /\ clock' = clock + 1
  /\ UNCHANGED <<plugin, file, cur, prev, runs, procs, call>>

RaceInit ==
  /\ plugin = [Type |-> TypeMetrics, caps |-> {TypeMetrics}]
  /\ file = OldState
  /\ clock = RaceStart
  /\ cur = NoRun
  /\ prev = NoRun
  /\ runs = 0
  /\ procs = [p \in Procs |-> Waiting]
  /\ call = NoCall

RaceNext ==
  \/ Tick
  \/ \E p \in Procs : Observe(p)
  \/ \E p \in Procs : Load(p)
  \/ \E p \in Procs : Emit(p)
  \/ \E p \in Procs : Create(p)
  \/ \E p \in Procs : Write(p)

SpecRace == RaceInit /\ [][RaceNext]_vars

(***************************************************************************)
(* The Rate Engine on its own: calcDiff, calcDiffUint32 and calcDiffUint64 *)
(* applied once to counters, a previous rate and two times drawn from      *)
(* bounded sets.                                                           *)
(***************************************************************************)
\* the idle state of the other variables while a function is called alone
Idle ==
  /\ plugin = [Type |-> TypeMetrics, caps |-> {TypeMetrics}]
  /\ file = Absent
  /\ clock = 0
  /\ cur = NoRun
  /\ prev = NoRun
  /\ runs = 0
  /\ procs = <<>>

\* the seconds between the two times: one, one that does not divide 60, a
\* minute, the longest window and one beyond it
Durations == {1, 7, PerMinute, TooLong, TooLong + 1}
MaxLate == 1      \* the ticks the current time may lie past the whole second

\* counters: small ones, one above 2^32 / 60, the largest of the width
Overflowing == 71582789
Counters(limbs) ==
  {BigOf(0), BigOf(90), BigOf(100), BigOf(160), BigOf(Overflowing), AllOnes(limbs)}
Floats == {F64(0, 1), F64(1, 2), F64(90, 1), F64(100, 1), F64(160, 1)}
LastDiffs == {Zero, FracOf(F64(1, 2)), FracOf(F64(60, 1))}

UintCalls(kind, limbs) ==
  { [value |-> [n |-> v, d |-> 1], lastValue |-> [n |-> lv, d |-> 1], lastDiff |-> ld,
     kind |-> kind,
     fn |-> "rate", duration |-> d, late |-> h, done |-> FALSE,
     result |-> [v |-> Zero, err |-> ""]] :
      v \in Counters(limbs), lv \in Counters(limbs),
      ld \in LastDiffs, d \in Durations, h \in 0..MaxLate }

RateCalls ==
  { [value |-> FracOf(v), lastValue |-> FracOf(lv), lastDiff |-> Zero, kind |-> "float64",
     fn |-> "rate", duration |-> d, late |-> h, done |-> FALSE,
     result |-> [v |-> Zero, err |-> ""]] :
      v \in Floats, lv \in Floats, d \in Durations, h \in 0..MaxLate }
  \cup UintCalls(metricTypeUint32, Limbs32) \cup UintCalls(metricTypeUint64, Limbs64)

\* the two times of a call: the previous one a whole second, as it is
\* loaded; the current one `duration` seconds and `late` ticks after it
RateStart == 10 * Second
LastTimeOf(c) == At(RateStart)
NowOf(c) == At(RateStart + c.duration * Second + c.late)

RateEngine ==
  /\ call.fn = "rate" /\ ~call.done
  /\ call' = [call EXCEPT
       !.done = TRUE,
       !.result =
         CASE call.kind = metricTypeUint32 ->
                calcDiffUint32(call.value.n, NowOf(call), call.lastValue.n, LastTimeOf(call),
                               call.lastDiff)
           [] call.kind = metricTypeUint64 ->
                calcDiffUint64(call.value.n, NowOf(call), call.lastValue.n, LastTimeOf(call),
                               call.lastDiff)
           [] OTHER ->
                calcDiff(call.value, NowOf(call), call.lastValue, LastTimeOf(call))]
  /\ UNCHANGED <<plugin, file, clock, cur, prev, runs, procs>>

RateInit ==
  /\ Idle
  /\ call \in RateCalls

RateNext == RateEngine

SpecRate == RateInit /\ [][RateNext]_vars

(***************************************************************************)
(* Wildcard expansion on its own: one metric definition whose graph key or *)
(* name holds a token, expanded over a set of observed keys as the loop of *)
(* OutputMetricsValues does it.                                            *)
(***************************************************************************)
ObservedKeys ==
  { <<"cpu", "user">>, <<"cpu", "system">>, <<"cpu", "idle">>, <<"memory", "used">>,
    <<"cpu", "user", "extra">>, <<"cpu">>, <<"cpu", "">> }
\* graph key and metric name: cpu.*, cpu.#, *.used and cpu.*.extra
Wildcards ==
  { <<<<"cpu">>, <<"*">>>>, <<<<"cpu">>, <<"#">>>>, <<<<"*">>, <<"used">>>>,
    <<<<"cpu", "*">>, <<"extra">>>> }

WildcardCalls ==
  { [metric |-> Metric(w[2], "", FALSE, ""), prefix |-> w[1], out |-> NoOutput,
     fn |-> "wildcard", done |-> FALSE, observed |-> keys] :
      w \in Wildcards, keys \in SUBSET ObservedKeys }

\* lines 512-518 for the one metric, nothing loaded
Expand ==
  /\ call.fn = "wildcard" /\ ~call.done
  /\ LET metricValues == PluginValues(MapOf([k \in call.observed |-> F64(7, 1)]), At(clock))
         emitted == EmitAll(MetricCalls(call.prefix, <<call.metric>>, metricValues),
                            metricValues, NoLoad.values)
     IN  call' = [call EXCEPT !.done = TRUE, !.out = BagOfSeq(emitted.out)]
  /\ UNCHANGED <<plugin, file, clock, cur, prev, runs, procs>>

WildcardInit == Idle /\ call \in WildcardCalls
WildcardNext == Expand
SpecWildcard == WildcardInit /\ [][WildcardNext]_vars

(***************************************************************************)
(* Version and descriptor.  A text is a sequence of characters; the fixed  *)
(* words of the version line ("idpc-plugin", "version", "rev" and the      *)
(* three types) are single elements of it.  A version is three unsigned    *)
(* 32-bit components.                                                      *)
(***************************************************************************)
DigitChars == <<"0", "1", "2", "3", "4", "5", "6", "7", "8", "9">>
Digits     == {DigitChars[i] : i \in 1..10}
DigitValue(c) == (CHOOSE i \in 1..10 : DigitChars[i] = c) - 1
\* \w, \s
WordChars  == Digits \cup {"a", "b", "d", "g", "o", "x", "_",
                           "version", "rev", "checker", "metrics", "metadata"}
SpaceChars == {" ", "\t"}

PLUGIN_PREFIX == "idpc-plugin"
Types == {TypeChecker, TypeMetrics, TypeMetadata}

\* fmt's %d of an unsigned integer: its decimal digits
RECURSIVE Decimal(_)
Decimal(a) ==
  IF BigLess(a, BigOf(10)) THEN <<DigitChars[BigToInt(a) + 1]>>
  ELSE Decimal(BigDivSmall(a, 10)) \o <<DigitChars[BigModSmall(a, 10) + 1]>>

\* strconv.ParseUint(text, 10, 32): [v, err]
RECURSIVE ParseUintFrom(_, _, _)
ParseUintFrom(text, i, acc) ==
  IF i > Len(text) THEN [v |-> acc, err |-> FALSE]
  ELSE IF text[i] \notin Digits THEN [v |-> <<>>, err |-> TRUE]
  ELSE LET next == BigAdd(BigMulSmall(acc, 10), BigOf(DigitValue(text[i])))
       IN  IF Len(next) > Limbs32 THEN [v |-> AllOnes(Limbs32), err |-> TRUE]
           ELSE ParseUintFrom(text, i + 1, next)
\* a parser for 16 bits
ParseUint16(text) ==
  IF text = <<>> \/ Len(ParseUintFrom(text, 1, <<>>).v) > 1
  THEN [v |-> <<>>, err |-> TRUE] ELSE ParseUintFrom(text, 1, <<>>)


ParseUint32(text) ==
  IF text = <<>> THEN [v |-> <<>>, err |-> TRUE] ELSE ParseUintFrom(text, 1, <<>>)

Version(major, minor, patch) == [Major |-> major, Minor |-> minor, Patch |-> patch]
NoVersion == Version(<<>>, <<>>, <<>>)

\* Version.String
VersionString(v) ==
  Decimal(v.Major) \o <<".">> \o Decimal(v.Minor) \o <<".">> \o Decimal(v.Patch)

\* the places of the separator in a text, and strings.SplitN(text, ".", 3)
Dots(text) == {i \in 1..Len(text) : text[i] = "."}
Least(S) == CHOOSE i \in S : \A j \in S : i <= j
SplitN3(text) ==
  IF Dots(text) = {} THEN <<text>>
  ELSE LET a == Least(Dots(text))
       IN  IF Dots(text) \ {a} = {} 
           THEN <<SubSeq(text, 1, a - 1), SubSeq(text, a + 1, Len(text))>>
           ELSE LET b == Least(Dots(text) \ {a})
                IN  <<SubSeq(text, 1, a - 1), SubSeq(text, a + 1, b - 1),
                      SubSeq(text, b + 1, Len(text))>>

\* ParseVersion: [v, err]
ParseVersion(text) ==
  LET versionSplit == SplitN3(text)
  IN  IF Len(versionSplit) < 3 THEN [v |-> NoVersion, err |-> TRUE]
      ELSE LET major == ParseUint32(versionSplit[1])
               minor == ParseUint32(versionSplit[2])
               patch == ParseUint32(versionSplit[3])
           IN  IF major.err \/ minor.err \/ patch.err
               THEN [v |-> NoVersion, err |-> TRUE]
               ELSE [v |-> Version(major.v, minor.v, patch.v), err |-> FALSE]

Meta(key, type, version, revision, goos, goarch, goversion) ==
  [Type |-> type, Version |-> version, Key |-> key, Revision |-> revision,
   GOOS |-> goos, GOARCH |-> goarch, GOVersion |-> goversion]
NoMeta == Meta(<<>>, "", NoVersion, <<>>, <<>>, <<>>, <<>>)

\* Meta.String and Meta.Name
MetaString(b) ==
  <<PLUGIN_PREFIX, "-">> \o b.Key \o <<"-", b.Type, " ", "version", " ">>
  \o VersionString(b.Version) \o <<" ", "(", "rev", " ">> \o b.Revision
  \o <<")", " ", "[">> \o b.GOOS \o <<" ">> \o b.GOARCH \o <<" ">> \o b.GOVersion
  \o <<"]">>
MetaName(b) == <<PLUGIN_PREFIX, "-">> \o b.Key \o <<"-", b.Type>>

(***************************************************************************)
(* PluginVersionRegex, piece by piece.  A position is the index of the     *)
(* next character to match; 0 means the match has failed.  Every piece is  *)
(* greedy, and no piece can give back characters to the one after it: the  *)
(* character after a run is never of the run's class.                      *)
(***************************************************************************)
\* the end of the longest run of characters of `class` from i, at most max
RECURSIVE RunEnd(_, _, _, _)
RunEnd(text, i, class, max) ==
  IF max = 0 \/ i > Len(text) \/ text[i] \notin class THEN i
  ELSE RunEnd(text, i + 1, class, max - 1)
Unbounded == 1000
\* class*, class+ and class{1,max} from i
Star(text, i, class) == IF i = 0 THEN 0 ELSE RunEnd(text, i, class, Unbounded)
Plus(text, i, class, max) ==
  IF i = 0 \/ RunEnd(text, i, class, max) = i THEN 0 ELSE RunEnd(text, i, class, max)
\* the literal characters `lit` from i
Lit(text, i, lit) ==
  IF i = 0 \/ i + Len(lit) - 1 > Len(text) \/ SubSeq(text, i, i + Len(lit) - 1) # lit
  THEN 0 ELSE i + Len(lit)
\* (checker|metrics|metadata)
OneType(text, i) == IF i = 0 \/ i > Len(text) \/ text[i] \notin Types THEN 0 ELSE i + 1
\* (.+)] : the last "]" with at least one character before it
LastBracket(text, i) ==
  IF i = 0 \/ {j \in (i + 1)..Len(text) : text[j] = "]"} = {} THEN 0
  ELSE CHOOSE j \in (i + 1)..Len(text) :
         text[j] = "]" /\ \A k \in (j + 1)..Len(text) : text[k] # "]"
Group(text, from, to) == IF to = 0 THEN <<>> ELSE SubSeq(text, from, to - 1)

\* ParseVersionCommand
ParseVersionCommand(text) ==
  LET p1  == Lit(text, Star(text, 1, SpaceChars), <<PLUGIN_PREFIX, "-">>)
      p2  == Plus(text, p1, WordChars, Unbounded)
      p3  == Lit(text, p2, <<"-">>)
      p4  == OneType(text, p3)
      p5  == Lit(text, Plus(text, p4, SpaceChars, Unbounded), <<"version">>)
      p6  == Plus(text, p5, SpaceChars, Unbounded)
      p7  == Plus(text, Lit(text, Plus(text, Lit(text, Plus(text, p6, Digits, 3), <<".">>),
                                       Digits, 3), <<".">>), Digits, 3)
      p8  == Lit(text, Plus(text, p7, SpaceChars, Unbounded), <<"(", "rev">>)
      p9  == Plus(text, p8, SpaceChars, Unbounded)
      p10 == Plus(text, p9, WordChars, Unbounded)
      p11 == Lit(text, Plus(text, Lit(text, p10, <<")">>), SpaceChars, Unbounded), <<"[">>)
      p12 == Plus(text, p11, WordChars, Unbounded)
      p13 == Plus(text, p12, SpaceChars, Unbounded)
      p14 == Plus(text, p13, WordChars, Unbounded)
      p15 == Plus(text, p14, SpaceChars, Unbounded)
      p16 == LastBracket(text, p15)
      version == ParseVersion(Group(text, p6, p7))
  IN  IF p16 = 0 \/ version.err THEN NoMeta
      ELSE Meta(Group(text, p1, p2), text[p3], version.v, Group(text, p9, p10),
                Group(text, p11, p12), Group(text, p13, p14), Group(text, p15, p16))

(***************************************************************************)
(* The version and the version line on their own: a value rendered and the *)
(* text parsed back, or a given text parsed.                               *)
(***************************************************************************)
\* components: none, small, the largest of three digits, the least of four,
\* the largest of 32 bits
Components == {BigOf(0), BigOf(7), BigOf(999), BigOf(1000), AllOnes(Limbs32)}
Versions == {Version(a, b, c) : a, b, c \in Components}
\* texts that are no rendering of a version: two components, a letter, an
\* empty component, 2^32, four components, nothing, a leading zero
VersionTexts ==
  { <<"1", ".", "2">>, <<"1", ".", "2", ".", "x">>, <<"1", ".", ".", "3">>,
    <<"4", "2", "9", "4", "9", "6", "7", "2", "9", "6", ".", "0", ".", "0">>,
    <<"1", ".", "2", ".", "3", ".", "4">>, <<>>, <<"0", "7", ".", "0", ".", "1">> }

Descriptors ==
  { Meta(key, type, Version(a, b, BigOf(2)), revision, <<"o">>, <<"x">>, goversion) :
      key \in {<<"d", "b">>, <<"a", "_", "1">>}, type \in Types,
      a \in {BigOf(0), BigOf(999), BigOf(1000)}, b \in {BigOf(71), BigOf(1212)},
      revision \in {<<"d">>, <<"9", "a">>},
      goversion \in {<<"g", "o", "1">>, <<"g", "o", "1", ".", "1", "]", " ", "x">>} }
TestLine ==
  MetaString(Meta(<<"d", "b">>, TypeMetadata, Version(BigOf(0), BigOf(71), BigOf(2)),
                  <<"9", "a">>, <<"o">>, <<"x">>, <<"g", "o", "1">>))
\* texts that are no version line: the line after a space, before more
\* text, without its first word, with a tab for a space, and a version alone
LineTexts ==
  { <<" ">> \o TestLine, TestLine \o <<" ", "x">>, Tail(TestLine),
    [TestLine EXCEPT ![6] = "\t"], <<"0", ".", "7", "1", ".", "2">> }

NoParse == [v |-> NoVersion, err |-> FALSE]
Called(fn, given, v, d, text) ==
  [d |-> d, text |-> text, v |-> v,
   fn |-> fn, given |-> given, stage |-> IF given THEN "text" ELSE "value", parsed |-> NoParse, meta |-> NoMeta]

VersionCalls ==
  {Called("version", FALSE, v, NoMeta, <<>>) : v \in Versions}
  \cup {Called("version", TRUE, NoVersion, NoMeta, t) : t \in VersionTexts}
  \cup {Called("line", FALSE, NoVersion, d, <<>>) : d \in Descriptors}
  \cup {Called("line", TRUE, NoVersion, NoMeta, t) : t \in LineTexts}

\* v.String()
RenderVersion ==
  /\ call.fn = "version" /\ call.stage = "value"
  /\ call' = [call EXCEPT !.stage = "text", !.text = VersionString(call.v)]
  /\ UNCHANGED <<plugin, file, clock, cur, prev, runs, procs>>

\* ParseVersion(text)
ParseVersionText ==
  /\ call.fn = "version" /\ call.stage = "text"
  /\ call' = [call EXCEPT !.stage = "parsed", !.parsed = ParseVersion(call.text)]
  /\ UNCHANGED <<plugin, file, clock, cur, prev, runs, procs>>

\* d.String()
RenderLine ==
  /\ call.fn = "line" /\ call.stage = "value"
  /\ call' = [call EXCEPT !.stage = "text", !.text = MetaString(call.d)]
  /\ UNCHANGED <<plugin, file, clock, cur, prev, runs, procs>>

\* ParseVersionCommand(text)
ParseLine ==
  /\ call.fn = "line" /\ call.stage = "text"
  /\ call' = [call EXCEPT !.stage = "parsed", !.meta = ParseVersionCommand(call.text)]
  /\ UNCHANGED <<plugin, file, clock, cur, prev, runs, procs>>

VersionInit == Idle /\ call \in VersionCalls
VersionNext == RenderVersion \/ ParseVersionText \/ RenderLine \/ ParseLine
SpecVersion == VersionInit /\ [][VersionNext]_vars

(***************************************************************************)
(* Scaling on its own: formatValues applied once to one metric definition  *)
(* with a scale, one observed value and the value loaded from a minute     *)
(* before.                                                                 *)
(***************************************************************************)
\* no scale, a half, two, one and a half, a thousand
Scales == {NoScale, [n |-> 1, d |-> 2], [n |-> 2, d |-> 1], [n |-> 3, d |-> 2],
           [n |-> Thousand, d |-> 1]}
Kinds == {"", metricTypeUint32, metricTypeUint64}
RawValues == {F64(7, 1), F64(15, 2), U32(10), U32(7), U64(10), NumStr(10)}
ScaledName == <<"v">>

ScaleCalls ==
  { [metric |-> [Metric(ScaledName, "", diff, kind) EXCEPT !.Scale = scale],
     raw |-> raw,
     out |-> <<>>, fn |-> "scale", done |-> FALSE] :
      diff \in BOOLEAN, kind \in Kinds, scale \in Scales, raw \in RawValues }

\* the current observation of a call and the one loaded: the counter at 4,
\* a minute before
ScaleNow(c)  == PluginValues(MapOf(ScaledName :> c.raw), At(RateStart + PerMinute * Second))
ScaleLast == LoadLastValues(SaveValues(PluginValues(MapOf(ScaledName :> F64(4, 1)),
                                                    At(RateStart)))).values

ApplyScale ==
  /\ call.fn = "scale" /\ ~call.done
  /\ call' = [call EXCEPT
       !.done = TRUE,
       !.out = formatValues(PluginKey, <<>>, call.metric, ScaleNow(call), ScaleLast).out]
  /\ UNCHANGED <<plugin, file, clock, cur, prev, runs, procs>>

ScaleInit == Idle /\ call \in ScaleCalls
ScaleNext == ApplyScale
SpecScale == ScaleInit /\ [][ScaleNext]_vars

(***************************************************************************)
(* The metrics cycle over every state file: the invocation of a metrics    *)
(* plugin that finds a state file of CycleFiles, left there at any clock   *)
(* value by whoever wrote it, and the invocation after it.                 *)
(***************************************************************************)
\* the files of LoadFiles, and one stamped 2^63 seconds after the epoch
CycleFiles ==
  LoadFiles
  \cup {Persisted((<<"get">> :> F64(100, 1))
                  @@ (LastTimeKey :> Typed("float64", [n |-> Int64Limit, d |-> 1])))}

CycleInit ==
  /\ plugin = [Type |-> TypeMetrics, caps |-> {TypeMetrics}]
  /\ file \in CycleFiles
  /\ clock \in 0..MaxLoadTick
  /\ cur = NoRun
  /\ prev = NoRun
  /\ runs = 0
  /\ procs = <<>>
  /\ call = NoCall

CycleNext == prev = NoRun /\ RunMetrics

SpecCycle == CycleInit /\ [][CycleNext]_vars

(***************************************************************************)
(* Spaced invocations: a metrics or metadata plugin started on an absent   *)
(* state file, every invocation taking its timestamp one second or more    *)
(* after the one before; the first clock value may have a sub-second part. *)
(***************************************************************************)
\* the time between two invocations, in ticks: exactly one second, one and
\* a half, a minute
Spacings == {Second, Second + 1, PerMinute * Second}

SpacedMetrics ==
  \E step \in Spacings, res \in MetricsResults :
    /\ plugin.Type = TypeMetrics
    /\ Invoke(step)
    /\ OutputMetricsValues("", clock + step, res)

SpacedMetadata ==
  \E step \in Spacings, res \in MetadataResults :
    /\ plugin.Type = TypeMetadata
    /\ Invoke(step)
    /\ OutputMetadataValues("", clock + step, res)

SpacedInit ==
  /\ plugin \in {p \in Plugins : p.Type \in {TypeMetrics, TypeMetadata}}
  /\ file = Absent
  /\ clock \in {10 * Second, 10 * Second + 1}
  /\ cur = NoRun
  /\ prev = NoRun
  /\ runs = 0
  /\ procs = <<>>
  /\ call = NoCall

SpacedNext == SpacedMetrics \/ SpacedMetadata

SpecSpaced == SpacedInit /\ [][SpacedNext]_vars

(***************************************************************************)
(* Properties                                                              *)
(***************************************************************************)
\* the cycles of the latest invocation
MetricsCycle(run) ==
  run.mode = "values" /\ plugin.Type = TypeMetrics /\ TypeMetrics \in plugin.caps
MetadataCycle(run) ==
  run.mode = "values" /\ plugin.Type = TypeMetadata /\ TypeMetadata \in plugin.caps
CheckerCycle(run) ==
  run.mode = "values" /\ plugin.Type = TypeChecker /\ TypeChecker \in plugin.caps
\* the cycle ran to its end: the capability succeeded, the load was not stale
Completed(run) == ~run.ret.err /\ ~run.stale

\* the metrics of the graph definitions, with the graph key as prefix
AllMetrics ==
  UNION { {[metric |-> GraphDefinition[g].Metrics[i], prefix |-> g] :
             i \in 1..Len(GraphDefinition[g].Metrics)} : g \in DOMAIN GraphDefinition }

OutKey(c) == MetricKey(PluginKey, c.prefix, c.metric)
\* the lines of an invocation's stdout that carry the key k, and their number
LinesOf(run, k) == {l \in DOMAIN run.out : l.key = k}
RECURSIVE Total(_, _)
Total(bag, S) ==
  IF S = {} THEN 0
  ELSE LET x == CHOOSE y \in S : TRUE IN bag[x] + Total(bag, S \ {x})
NumLines(run, k) == Total(run.out, LinesOf(run, k))
OutSize(run) == Total(run.out, DOMAIN run.out)
OneLine(run, line) == LinesOf(run, line.key) = {line} /\ run.out[line] = 1

\* a whole number held as a float64, as text, or as an unsigned integer
IsWhole(v) == v.d = 1 /\ (v.t \in {"float64", "uint32", "uint64"} \/ v.s = "#")
Whole(v) == BigToInt(v.n)

\* the %f text of num/den is the fraction rounded to six decimals
IsSixDecimalsOf(text, num, den) ==
  /\ text.fmt = "f"
  /\ text.ip = BigOf(num \div den)
  /\ text.frac \in 0..(Million - 1)
  /\ 2 * (text.frac * den - (num % den) * Million) \in (0 - den)..den

\* C1: a metrics cycle that finds no state file prints no line for a diff
\* metric, prints every observed non-diff metric, and persists the
\* observation with its time; a cycle d whole seconds (1 <= d <= 600) after
\* the persisted one, in which an unscaled float diff metric's counter is
\* higher by delta >= 0, prints that metric once with the value delta*60/d.
C1_FirstThenRate ==
  (MetricsCycle(cur) /\ Completed(cur)) =>
    /\ (cur.loaded = NoLoad) =>
         /\ \A c \in AllMetrics :
              IF c.metric.Diff \/ ~Has(cur.ret.map, c.metric.Name)
              THEN NumLines(cur, OutKey(c)) = 0
              ELSE OneLine(cur, [text |-> [fmt |-> "f",
                                           ip |-> Get(cur.ret.map, c.metric.Name).n,
                                           frac |-> 0],
                                 key |-> OutKey(c),
                                 ts |-> cur.now \div Second])
         /\ file = JsonFile(EncodeMap(Put(cur.ret.map, LastTimeKey,
                                          I64(cur.now \div Second))))
    /\ \A c \in AllMetrics :
         LET v1 == Get(cur.ret.map, c.metric.Name)
             v0 == Get(cur.loaded.values.Values, c.metric.Name)
             d  == (cur.now \div Second) - Unix(cur.loaded.values.Timestamp)
         IN  ( /\ c.metric.Diff /\ c.metric.Type = "" /\ c.metric.Scale.n = 0
               /\ Has(cur.loaded.values.Values, c.metric.Name)
               /\ ~cur.loaded.values.Timestamp.zero
               /\ IsWhole(v0) /\ IsWhole(v1) /\ Whole(v0) <= Whole(v1)
               /\ d \in 1..TooLong )
             => /\ NumLines(cur, OutKey(c)) = 1
                /\ \A l \in LinesOf(cur, OutKey(c)) :
                     /\ IsSixDecimalsOf(l.text, (Whole(v1) - Whole(v0)) * PerMinute, d)
                     /\ l.ts = cur.now \div Second

\* the spec's example: 60 seconds after the first cycle, the counter higher
\* by 120, the line reads 120.000000
C1_Witness ==
  /\ MetricsCycle(cur) /\ Completed(cur)
  /\ MetricsCycle(prev) /\ Completed(prev) /\ prev.loaded = NoLoad /\ prev.opened
  /\ cur.now = prev.now + PerMinute * Second
  /\ Whole(Get(cur.ret.map, <<"get">>)) = Whole(Get(prev.ret.map, <<"get">>)) + 120
  /\ \A k \in {"get", "set"} :
       \E l \in DOMAIN cur.out :
         /\ l.key = <<PluginKey, "cmd", k>>
         /\ l.text = [fmt |-> "f", ip |-> BigOf(120), frac |-> 0]

\* C2: the guarded load reports the stale write exactly when the file was
\* read as JSON, holds a numeric _lastTime and the clock is less than one
\* second past it; an absent file gives the empty observation, the zero
\* time and no error.
C2_StaleExactly ==
  (cur.mode = "load") =>
    /\ (cur.loaded.err = errStateUpdated) <=>
         /\ file.kind = "json"
         /\ LastTimeKey \in DOMAIN file.obj
         /\ file.obj[LastTimeKey].j = "number"
         /\ clock - BigToInt(file.obj[LastTimeKey].n) * Second < Second
    /\ (file = Absent) =>
         cur.loaded = [err |-> "", values |-> [Values |-> NilMap, Timestamp |-> ZeroTime]]

\* half a second after the stored time the load is stale
C2_Witness ==
  /\ cur.mode = "load" /\ cur.loaded.err = errStateUpdated
  /\ file.kind = "json" /\ LastTimeKey \in DOMAIN file.obj
  /\ 2 * (clock - BigToInt(file.obj[LastTimeKey].n) * Second) = Second

\* C3: a metrics or metadata cycle whose guarded load reports the stale
\* write prints nothing, leaves the state file as it was loaded, and ends
\* with exit status 0.
C3_StaleStopsSilently ==
  ((MetricsCycle(cur) \/ MetadataCycle(cur)) /\ cur.loaded.err = errStateUpdated) =>
    /\ cur.out = NoOutput
    /\ cur.writes = 0
    /\ cur.exit = 0
    /\ file.kind = "json" /\ DecodeMap(file.obj) = cur.loaded.values.Values
    /\ Get(DecodeMap(file.obj), LastTimeKey)
         = Typed("float64", FracOf(I64(Unix(cur.loaded.values.Timestamp))))

C3_Witness ==
  /\ MetricsCycle(cur) /\ cur.loaded.err = errStateUpdated
  /\ MetricsCycle(prev) /\ prev.writes = 1

C3_WitnessMetadata ==
  /\ MetadataCycle(cur) /\ cur.loaded.err = errStateUpdated
  /\ MetadataCycle(prev) /\ prev.writes = 1

\* two metadata cycles in immediate succession: the first one wrote the
\* state file, the second one starts less than a second later
InSuccession ==
  /\ MetadataCycle(prev) /\ Completed(prev) /\ prev.writes = 1
  /\ MetadataCycle(cur) /\ cur.now - prev.now < Second

\* C4, as the spec states it: the second of two metadata cycles in immediate
\* succession with unchanged metadata is suppressed by the staleness guard,
\* there is exactly one write, and both print the same.
C4_SameOutputTwice ==
  (InSuccession /\ (cur.stale \/ (~cur.ret.err /\ cur.ret.map = prev.ret.map))) =>
    /\ cur.stale
    /\ prev.writes + cur.writes = 1
    /\ cur.out = prev.out

\* C4, amended: the guard stops the second cycle exactly when it starts
\* less than a second after the whole second the first one stored; then it
\* calls no capability, prints nothing and writes nothing, so there is one
\* write in all and its stdout is empty; when the guard lets it through,
\* unchanged metadata is printed as the first cycle printed it.
C4_SecondSuppressed ==
  InSuccession =>
    /\ cur.stale <=> (cur.now - (prev.now \div Second) * Second < Second)
    /\ cur.stale =>
         /\ cur.calls.Metadata = 0
         /\ cur.out = NoOutput /\ prev.out # NoOutput
         /\ prev.writes + cur.writes = 1
    /\ (~cur.stale /\ ~cur.ret.err /\ cur.ret.map = prev.ret.map) =>
         cur.out = prev.out

\* the second cycle half a second after the first: stopped, nothing printed
C4_Witness ==
  /\ InSuccession /\ cur.stale
  /\ 2 * (cur.now - prev.now) = Second
  /\ cur.out = NoOutput /\ OutSize(prev) = 1

\* what a non-stale, successful metadata cycle compares: the fetched map with
\* the loaded _lastTime carried into it, and the loaded map, as persisted
FetchedContent(run) ==
  EncodeMap(Put(run.ret.map, LastTimeKey, Get(run.loaded.values.Values, LastTimeKey)))
PersistedContent(run) == EncodeMap(run.loaded.values.Values)

\* C5, as the spec states it: a metadata cycle that is not stale and whose
\* capability succeeds prints the metadata, writes the state file exactly
\* when the fetched content differs from the persisted content, and so a
\* cycle fetching the same metadata as the completed cycle a second or more
\* before it does not write.
C5_WritesOnlyOnChange ==
  (MetadataCycle(cur) /\ Completed(cur)) =>
    /\ cur.out = BagOfSeq(<<[json |-> EncodeMap(cur.ret.map)]>>)
    /\ (cur.writes = 1) <=>
         (cur.loaded.values.Values.nil \/ FetchedContent(cur) # PersistedContent(cur))
    /\ (MetadataCycle(prev) /\ Completed(prev) /\ cur.ret.map = prev.ret.map
           /\ cur.now - prev.now >= Second) =>
         cur.writes = 0

\* C6: a metrics or metadata cycle whose capability fails prints nothing,
\* does not write the state file and exits with status 1.
C6_CapabilityFailureIsFatal ==
  ((MetricsCycle(cur) \/ MetadataCycle(cur)) /\ cur.ret.err) =>
    /\ cur.out = NoOutput
    /\ cur.writes = 0
    /\ cur.exit # 0
    /\ cur.calls.Metrics + cur.calls.Metadata = 1

C6_Witness ==
  /\ MetricsCycle(cur) /\ cur.ret.err /\ cur.exit = 1
  /\ file.kind = "json"

C6_WitnessMetadata ==
  /\ MetadataCycle(cur) /\ cur.ret.err /\ cur.exit = 1
  /\ file.kind = "json" /\ cur.opened

\* the observation of a metrics cycle and the name a metric is looked up by
Observed(run) == PluginValues(run.ret.map, At(run.now))
LookupName(c) ==
  IF c.metric.AbsoluteName /\ Len(c.prefix) > 0
  THEN c.prefix \o c.metric.Name ELSE c.metric.Name
\* the Rate Engine was called for the metric and failed
RateFailure(run, c) ==
  IF c.metric.Diff /\ Has(run.loaded.values.Values, LookupName(c))
                   /\ Get(run.ret.map, LookupName(c)) # Nil
  THEN DiffValue(c.metric, LookupName(c),
                 ParsedValue(c.metric, Get(run.ret.map, LookupName(c))),
                 Observed(run), run.loaded.values).err
  ELSE ""
\* the lines one metric gives on the inputs of the cycle, taken alone
Alone(run, c) ==
  formatValues(PluginKey, c.prefix, c.metric, Observed(run), run.loaded.values).out

\* C7: in a metrics cycle a metric whose rate fails (counter reset, duration
\* too long) prints no line; every metric prints what it prints taken
\* alone, whatever failed before it; the state file afterwards holds every
\* observed raw value, the failed metric's too, and the time of the cycle.
C7_OnlyFailedMetricSkipped ==
  (MetricsCycle(cur) /\ Completed(cur)) =>
    /\ \A c \in AllMetrics :
         /\ (RateFailure(cur, c) # "") => NumLines(cur, OutKey(c)) = 0
         /\ NumLines(cur, OutKey(c)) = Len(Alone(cur, c))
         /\ \A i \in 1..Len(Alone(cur, c)) : cur.out[Alone(cur, c)[i]] = 1
    /\ OutSize(cur) = Total([c \in AllMetrics |-> Len(Alone(cur, c))], AllMetrics)
    /\ cur.writes = 1 /\ cur.exit = 0
    /\ file.kind = "json"
    /\ \A k \in DOMAIN cur.ret.map.m : k \in DOMAIN file.obj
                                        /\ file.obj[k] = Encode(cur.ret.map.m[k])
    /\ file.obj[LastTimeKey] = Encode(I64(cur.now \div Second))
    /\ \A c \in AllMetrics :
         (RateFailure(cur, c) # "") => LastDiffKey(LookupName(c)) \notin DOMAIN file.obj

\* one counter was reset while the other one went on
C7_Witness ==
  /\ MetricsCycle(cur) /\ Completed(cur)
  /\ \E c \in AllMetrics : RateFailure(cur, c) = ErrReset
  /\ \E c \in AllMetrics : c.metric.Diff /\ NumLines(cur, OutKey(c)) = 1
  /\ \E c \in AllMetrics : ~c.metric.Diff /\ NumLines(cur, OutKey(c)) = 1

\* the window was too long for every counter
C7_WitnessTooLong ==
  /\ MetricsCycle(cur) /\ Completed(cur)
  /\ \E c \in AllMetrics : RateFailure(cur, c) = ErrTooLong
  /\ \E c \in AllMetrics : ~c.metric.Diff /\ NumLines(cur, OutKey(c)) = 1

\* C8: a metrics cycle that finds a state file which is no JSON goes on as
\* if there were none: it exits normally, prints every observed non-diff
\* metric, prints no diff metric and overwrites the file with the current
\* observation; the invocation after it loads that observation.
C8_CorruptFileIsNoState ==
  /\ (MetricsCycle(cur) /\ ~cur.ret.err /\ cur.loaded.err = ErrDecode) =>
       /\ cur.exit = 0 /\ ~cur.stale
       /\ cur.loaded.values = NoLoad.values
       /\ \A c \in AllMetrics :
            NumLines(cur, OutKey(c)) =
              IF ~c.metric.Diff /\ Has(cur.ret.map, c.metric.Name) THEN 1 ELSE 0
       /\ cur.writes = 1
       /\ file = JsonFile(EncodeMap(Put(cur.ret.map, LastTimeKey,
                                        I64(cur.now \div Second))))
       /\ LoadLastValues(file).err = ""
  /\ (MetricsCycle(prev) /\ ~prev.ret.err /\ prev.loaded.err = ErrDecode /\ cur.opened) =>
       /\ cur.loaded.err # ErrDecode
       /\ cur.loaded.values =
            PluginValues(DecodeMap(EncodeMap(Put(prev.ret.map, LastTimeKey,
                                                 I64(prev.now \div Second)))),
                         TimeUnix(prev.now \div Second))

\* the cycle after the one that found the corrupt file computes a rate
C8_Witness ==
  /\ MetricsCycle(prev) /\ ~prev.ret.err /\ prev.loaded.err = ErrDecode
  /\ \E l \in DOMAIN prev.out : l.key = <<PluginKey, "conn", "curr">>
  /\ MetricsCycle(cur) /\ Completed(cur)
  /\ \E l \in DOMAIN cur.out : l.key = <<PluginKey, "cmd", "get">>

\* what OutputMeta prints for the plugin
Descriptor ==
  [version |-> <<PluginKey, plugin.Type>>,
   graphs |-> IF TypeMetrics \in plugin.caps THEN GraphDef ELSE NoEntries]

\* C9: an invocation takes the meta output exactly when the environment
\* flag is not empty, and the values output otherwise; the meta output
\* prints the descriptor (with the graph definitions of a metrics-capable
\* plugin), opens no state file, writes none and calls none of Metrics(),
\* Checker() and Metadata().
C9_MetaOutputOnFlag ==
  (cur.mode # "none") =>
    /\ (cur.mode = "meta") <=> (cur.env # "")
    /\ (cur.mode = "values") <=> (cur.env = "")
    /\ (cur.mode = "meta") =>
         /\ cur.out = BagOfSeq(<<Descriptor>>)
         /\ ~cur.opened /\ cur.writes = 0
         /\ cur.calls.Metrics = 0 /\ cur.calls.Checker = 0 /\ cur.calls.Metadata = 0
         /\ cur.exit = 0

\* a meta output after a values output that left a state file
C9_Witness ==
  /\ cur.mode = "meta" /\ cur.env # "" /\ prev.mode = "values" /\ prev.writes = 1
  /\ file.kind = "json"
  /\ \E l \in DOMAIN cur.out : l.graphs # NoEntries

\* C10, as the spec states it: the values output of a checker plugin calls
\* Checker() once, reports the message and the status it returns in the
\* invocation's output, and neither reads nor writes the state file.
C10_CheckerReported ==
  CheckerCycle(cur) =>
    /\ cur.calls.Checker = 1
    /\ \E l \in DOMAIN cur.out :
         /\ {"message", "status"} \subseteq DOMAIN l
         /\ l.message = cur.ret.message /\ l.status = cur.ret.status
    /\ ~cur.opened /\ cur.writes = 0

\* the process whose write landed last, and the time a process took
LastSaver == CHOOSE p \in Saved : \A q \in Saved : procs[q].order <= procs[p].order
TakenAt(p) == procs[p].run.now \div Second
PassedGuard(p) == procs[p].run.opened /\ ~procs[p].run.stale

\* C11: the staleness guard is a check at load time and no lock: a process
\* goes on to emit and save whenever the file it loaded was not written
\* within the second before its own time, whatever other process is under
\* way; and once the writes under way have landed the state file holds the
\* observation and the time of the process that wrote last, also when that
\* time is the older one.
C11_LastWriteWins ==
  /\ \A p \in Procs :
       PassedGuard(p) <=>
         /\ procs[p].pc \in {"emit", "create", "encode", "done"}
         /\ ~procs[p].run.ret.err
         /\ ~RecentlyUpdated(At(procs[p].run.now), procs[p].run.loaded.values.Timestamp)
  /\ (Saved # {} /\ \A p \in Procs : procs[p].pc # "encode") =>
       /\ file.kind = "json"
       /\ file.obj[LastTimeKey] = Encode(I64(TakenAt(LastSaver)))
       /\ \A k \in DOMAIN procs[LastSaver].run.ret.map.m :
            file.obj[k] = Encode(procs[LastSaver].run.ret.map.m[k])

\* both loaded the old state, both passed the guard, both printed, and the
\* write of the one with the older time landed last, over the fresher one
C11_Witness ==
  /\ \A p \in Procs :
       /\ procs[p].pc = "done" /\ PassedGuard(p)
       /\ procs[p].run.loaded = LoadLastValues(OldState)
       /\ procs[p].run.out # NoOutput
       /\ procs[p].run.writes = 1
  /\ \E p, q \in Procs :
       /\ TakenAt(p) < TakenAt(q)
       /\ procs[q].order = 1 /\ procs[p].order = 2
       /\ file.obj[LastTimeKey] = Encode(I64(TakenAt(p)))

\* a finished call of the Rate Engine, the whole seconds between its two
\* times, and the width of its counters
RateDone == call.fn = "rate" /\ call.done
Elapsed  == Unix(NowOf(call)) - Unix(LastTimeOf(call))
IsUint   == call.kind \in {metricTypeUint32, metricTypeUint64}
Width    == IF call.kind = metricTypeUint32 THEN Limbs32 ELSE Limbs64
Decrease == FracLess(call.value, call.lastValue)

\* C12: a Rate Engine variant returns the too-long error exactly when the
\* whole seconds between the two times exceed 600, whatever the counters
\* and the previous rate, also where the counter went down.
C12_TooLongFirst ==
  RateDone =>
    /\ (call.result.err = ErrTooLong) <=> (Elapsed > TooLong)
    /\ (call.result.err = ErrTooLong) => call.result.v = Zero

\* 601 seconds, a counter that went down and no previous rate
C12_Witness ==
  /\ RateDone /\ IsUint /\ Elapsed = TooLong + 1
  /\ Decrease /\ call.lastDiff = Zero
  /\ call.result.err = ErrTooLong

\* C13: the float variant, 1 to 600 seconds: a counter that did not go
\* down gives (current - previous) * 60 / duration, one that did gives the
\* reset error.
C13_FloatRate ==
  (RateDone /\ call.kind = "float64" /\ Elapsed \in 1..TooLong) =>
    IF Decrease
    THEN call.result.err = ErrReset
    ELSE /\ call.result.err = ""
         /\ BigToInt(call.result.v.n) * (call.value.d * call.lastValue.d * Elapsed)
              = (BigToInt(call.value.n) * call.lastValue.d
                   - BigToInt(call.lastValue.n) * call.value.d)
                * PerMinute * call.result.v.d

\* previous 100, current 160, 60 seconds: 60.0
C13_Witness ==
  /\ RateDone /\ call.kind = "float64" /\ Elapsed = PerMinute
  /\ call.lastValue = FracOf(F64(100, 1)) /\ call.value = FracOf(F64(160, 1))
  /\ call.result = [v |-> FracOf(F64(60, 1)), err |-> ""]

\* the unsigned difference as the width wraps it, and the rate the unsigned
\* variants compute from it
WrappedDifference ==
  IF Decrease
  THEN BigAdd(BigSubWrap(AllOnes(Width),
                         BigSubWrap(call.lastValue.n, call.value.n, Width), Width),
              BigOf(1))
  ELSE BigSubWrap(call.value.n, call.lastValue.n, Width)
WrappedRate ==
  Frac(BigWrap(BigMulSmall(WrappedDifference, PerMinute), Width), Elapsed)

\* C14: the unsigned variants, 1 to 600 seconds: the rate computed from the
\* wrapped difference is returned exactly when the counter did not go down
\* or the rate is below ten times the previous rate; otherwise the reset
\* error is returned, and always so for a decrease without previous rate.
C14_UintTolerance ==
  (RateDone /\ IsUint /\ Elapsed \in 1..TooLong) =>
    /\ (call.result.err = "") <=>
         (~Decrease \/ FracLess(WrappedRate, FracScale(call.lastDiff, Tolerance, 1)))
    /\ (call.result.err = "") => call.result.v = WrappedRate
    /\ (call.result.err # "") => call.result = [v |-> Zero, err |-> ErrReset]
    /\ (Decrease /\ call.lastDiff = Zero) => call.result.err = ErrReset

\* a counter that wrapped from the largest value to 90 in a minute, after
\* a rate of 60: the rate 91 is accepted
C14_Witness ==
  /\ RateDone /\ IsUint /\ Elapsed = PerMinute
  /\ call.lastValue.n = AllOnes(Width) /\ call.value.n = BigOf(90)
  /\ call.lastDiff = FracOf(F64(60, 1))
  /\ call.result = [v |-> FracOf(F64(91, 1)), err |-> ""]

\* C15, as the spec states it: the unsigned variants, 1 to 600 seconds, a
\* counter that did not go down: the rate is (current - previous) * 60 /
\* duration exactly, for every pair of values of the width.
C15_ExactUintRate ==
  (RateDone /\ IsUint /\ Elapsed \in 1..TooLong /\ ~Decrease) =>
    /\ call.result.err = ""
    /\ call.result.v =
         Frac(BigMulSmall(BigSubWrap(call.value.n, call.lastValue.n, Width), PerMinute),
              Elapsed)

\* the key is the pattern with every token replaced by a non-empty run of
\* [-a-zA-Z0-9_], from its first segment to its last
WholeMatch(pattern, k) ==
  /\ Len(k) = Len(pattern)
  /\ \A i \in 1..Len(pattern) :
       IF IsToken(pattern[i]) THEN k[i] # "" ELSE k[i] = pattern[i]
\* the lines of an expansion that carry the observed key k
Emitted(k) ==
  Total(call.out, {l \in DOMAIN call.out : l.key = <<PluginKey>> \o k})

\* C16, as the spec states it: an observed key is emitted as its own metric,
\* once, exactly when it is the graph key, a dot and the metric name with
\* every token replaced by a non-empty run of [-a-zA-Z0-9_]; no other line
\* is printed, and a key that only begins with a match is not emitted.
C16_WildcardExact ==
  (call.fn = "wildcard" /\ call.done) =>
    /\ \A k \in ObservedKeys :
         Emitted(k) = IF k \in call.observed
                         /\ WholeMatch(Pattern(call.prefix, call.metric), k)
                      THEN 1 ELSE 0
    /\ \A l \in DOMAIN call.out : Tail(l.key) \in call.observed

\* C17, as the spec states it: the version line of a descriptor parses back
\* to a descriptor with the same key, type, version, revision, os, arch and
\* runtime version, whose name is idpc-plugin-<key>-<type>; a text that is
\* no version line parses to the empty descriptor.
C17_LineRoundTrip ==
  (call.fn = "line" /\ call.stage = "parsed") =>
    IF call.given
    THEN call.meta = NoMeta
    ELSE /\ call.meta = call.d
         /\ MetaName(call.meta) = <<PLUGIN_PREFIX, "-">> \o call.d.Key \o <<"-", call.d.Type>>

\* a decimal text of a number below 2^32, leading zeros allowed
RECURSIVE Stripped(_)
Stripped(text) ==
  IF Len(text) > 1 /\ Head(text) = "0" THEN Stripped(Tail(text)) ELSE text
LargestUint32 == <<"4", "2", "9", "4", "9", "6", "7", "2", "9", "5">>
RECURSIVE NotAbove(_, _)
NotAbove(a, b) ==
  \/ a = <<>>
  \/ DigitValue(Head(a)) < DigitValue(Head(b))
  \/ Head(a) = Head(b) /\ NotAbove(Tail(a), Tail(b))
IsUint32Text(text) ==
  /\ text # <<>> /\ \A i \in 1..Len(text) : text[i] \in Digits
  /\ \/ Len(Stripped(text)) < Len(LargestUint32)
     \/ Len(Stripped(text)) = Len(LargestUint32) /\ NotAbove(Stripped(text), LargestUint32)

\* C18: the text of a version parses back to the version; a text parses
\* with an error when it has fewer than three components between dots, or
\* one of the three is no decimal integer of 32 bits, and only then.
C18_VersionRoundTrip ==
  (call.fn = "version" /\ call.stage = "parsed") =>
    /\ ~call.given => call.parsed = [v |-> call.v, err |-> FALSE]
    /\ call.parsed.err <=>
         \/ Cardinality(Dots(call.text)) < 2
         \/ \E i \in 1..3 : ~IsUint32Text(SplitN3(call.text)[i])
    /\ call.parsed.err => call.parsed.v = NoVersion

\* 4294967295.1000.999 and back
C18_Witness ==
  /\ call.fn = "version" /\ call.stage = "parsed" /\ ~call.given
  /\ call.v = Version(AllOnes(Limbs32), BigOf(1000), BigOf(999))
  /\ Len(call.text) = 19
  /\ call.parsed.v = call.v

\* the value of a scaling call before the scale: the raw value, or the rate
\* of a diff metric
Resolved ==
  IF call.metric.Diff
  THEN DiffValue(call.metric, ScaledName, ParsedValue(call.metric, call.raw),
                 ScaleNow(call), ScaleLast).v
  ELSE FracOf(ParsedValue(call.metric, call.raw))
\* the printed number is x to six decimals
Prints(line, x) == line.text.ip = FormatF(x).ip /\ line.text.frac = FormatF(x).frac

\* C19, as the spec states it: with a scale other than 0 the printed value
\* is the resolved value times the scale, for each kind and every scale,
\* fractional ones included; with the scale 0 it is the resolved value.
C19_ScaledExactly ==
  (call.fn = "scale" /\ call.done) =>
    /\ Len(call.out) = 1
    /\ Prints(call.out[1],
              IF call.metric.Scale.n = 0 THEN Resolved
              ELSE FracScale(Resolved, call.metric.Scale.n, call.metric.Scale.d))


\* formatValues reaches the Rate Engine for the metric: a diff metric that
\* is observed and has a last value, in a cycle the guard let pass
Invoked(run, c) ==
  /\ MetricsCycle(run) /\ Completed(run)
  /\ c.metric.Diff
  /\ Has(run.loaded.values.Values, LookupName(c))
  /\ Get(run.ret.map, LookupName(c)) # Nil
\* the duration of the cycle's rates, in whole Unix seconds
Duration(run) == diffTime(At(run.now), run.loaded.values.Timestamp)
\* the loaded timestamp lies in the same Unix second as the clock, or later
NotBehind(run) == ~run.loaded.values.Timestamp.zero /\ Duration(run) <= 0

\* C20: whenever formatValues invokes the Rate Engine, the duration it
\* divides by is at least 1 whole second, whatever the state file held
\* (absent, corrupt, without _lastTime, stamped in the future) and whatever
\* the clock shows; a cycle whose loaded timestamp is not at least one
\* Unix second behind the clock is stopped by the staleness guard and
\* prints nothing, so no rate is ever Beyond
C20_DurationAtLeastOne ==
  /\ \A c \in AllMetrics : Invoked(cur, c) => Duration(cur) >= 1
  /\ (MetricsCycle(cur) /\ cur.opened /\ NotBehind(cur)) =>
        cur.stale /\ cur.out = NoOutput
  /\ \A l \in DOMAIN cur.out : l.text.frac # -1

\* the whole second the state file is stamped with, -1 when it has none
StampOf(f) ==
  IF f.kind = "json" /\ LastTimeKey \in DOMAIN f.obj /\ f.obj[LastTimeKey].j = "number"
  THEN BigToInt(FracFloor([n |-> f.obj[LastTimeKey].n, d |-> f.obj[LastTimeKey].d]))
  ELSE -1

\* C21: in a sequence of metrics or metadata invocations that starts on an
\* absent state file and takes every timestamp one second or more after
\* the one before, the staleness guard rejects no invocation: every
\* invocation whose capability call succeeds goes on to emit (the metrics
\* cycle walks the graph definitions and prints a line for every observed
\* metric that is no rate, the metadata cycle prints its JSON line), and
\* after a metrics invocation the state file is stamped with the whole
\* seconds of that invocation's timestamp
C21_NeverRejected ==
  (cur.mode = "values") =>
    /\ ~cur.stale
    /\ cur.opened => cur.loaded.err # errStateUpdated
    /\ (MetricsCycle(cur) /\ ~cur.ret.err) =>
         /\ cur.calls.GraphDefinition = 1
         /\ \A c \in AllMetrics :
              (~c.metric.Diff /\ Get(cur.ret.map, LookupName(c)) # Nil) =>
                NumLines(cur, OutKey(c)) = 1
         /\ cur.writes = 1
         /\ StampOf(file) = cur.now \div Second
    /\ (MetadataCycle(cur) /\ ~cur.ret.err) => OutSize(cur) = 1

\* two metrics invocations exactly one second apart, the first with a
\* sub-second part that the stored timestamp dropped: the second passes
\* the guard and stamps the file with its own second
C21_Witness ==
  /\ MetricsCycle(cur) /\ MetricsCycle(prev)
  /\ ~cur.ret.err /\ ~prev.ret.err
  /\ cur.now - prev.now = Second /\ prev.now % Second # 0
  /\ cur.loaded.values.Timestamp = At((prev.now \div Second) * Second)
  /\ ~cur.stale /\ OutSize(cur) > 0
  /\ StampOf(file) = cur.now \div Second

\* the counter a cycle observed for a metric, as the Rate Engine reads it
CounterOf(run, c) ==
  IF c.metric.Type \in {metricTypeUint32, metricTypeUint64}
  THEN [n |-> toUint(ParsedValue(c.metric, Get(run.ret.map, LookupName(c))),
                     IF c.metric.Type = metricTypeUint32 THEN Limbs32 ELSE Limbs64),
        d |-> 1]
  ELSE toFloat64(ParsedValue(c.metric, Get(run.ret.map, LookupName(c))))
\* cycle n skipped the metric for a counter reset or a too long duration,
\* and cycle n+1 is taken between 1 and 600 seconds later with the counter
\* not lower
RecoveryCase(c) ==
  /\ MetricsCycle(prev) /\ Completed(prev)
  /\ RateFailure(prev, c) \in {ErrReset, ErrTooLong}
  /\ MetricsCycle(cur) /\ ~cur.ret.err
  /\ cur.now - prev.now >= Second /\ cur.now - prev.now <= TooLong * Second
  /\ Get(cur.ret.map, LookupName(c)) # Nil
  /\ FracLeq(CounterOf(prev, c), CounterOf(cur, c))
\* the rate of cycle n+1 against the raw value and the time of cycle n
RateAgainstPrev(c) ==
  DiffValue(c.metric, LookupName(c),
            ParsedValue(c.metric, Get(cur.ret.map, LookupName(c))),
            Observed(cur), Observed(prev))

\* C22: a diff metric that metrics cycle n skipped for a counter reset or a
\* too long duration is emitted by cycle n+1, taken between 1 and 600
\* seconds later with the counter not lower: cycle n+1 loads the raw value
\* of cycle n, persisted although the metric was skipped, loads no
\* .last_diff entry for it, and prints one line with the rate computed
\* against that raw value over the whole seconds between the two cycles
C22_RecoversAfterSkip ==
  \A c \in AllMetrics :
    RecoveryCase(c) =>
      /\ ~cur.stale
      /\ Get(cur.loaded.values.Values, LookupName(c))
           = Decode(Encode(Get(prev.ret.map, LookupName(c))))
      /\ ~Has(cur.loaded.values.Values, LastDiffKey(LookupName(c)))
      /\ cur.loaded.values.Timestamp = TimeUnix(prev.now \div Second)
      /\ RateAgainstPrev(c).err = ""
      /\ NumLines(cur, OutKey(c)) = 1
      /\ OneLine(cur, printValue(OutKey(c), Typed("float64", RateAgainstPrev(c).v),
                                 At(cur.now))[1])

\* a counter that was reset in one cycle is reported by the next
C22_Witness ==
  \E c \in AllMetrics :
    /\ RecoveryCase(c) /\ RateFailure(prev, c) = ErrReset
    /\ NumLines(cur, OutKey(c)) = 1

\* a counter skipped for a too long duration is reported by the next cycle
C22_WitnessTooLong ==
  \E c \in AllMetrics :
    /\ RecoveryCase(c) /\ RateFailure(prev, c) = ErrTooLong
    /\ NumLines(cur, OutKey(c)) = 1
====
